---- MODULE Spec2Model ----
(***************************************************************************)
(* Verification model of the pharmiliar service-matching code:            *)
(*   - AIServiceMapper (ai_service_mapper_v4.py): prediction cache,       *)
(*     similar-query lookup, relationship graph, search pipeline;         *)
(*   - ServiceMapper (service_mapper_final2.py / service_mapper_final.py):*)
(*     catalog search and scoring;                                        *)
(*   - CostPredictor (cost_predictor_v4.py): cached cost prediction and   *)
(*     tier price ranges;                                                 *)
(*   - ServiceMapper (service_mapper_v2.py): tier lookup.                 *)
(* Python strings are sequences of one-character strings, so that lower,  *)
(* strip, split, replace, substring tests and \w+ tokenisation are        *)
(* computed and not assumed.                                              *)
(***************************************************************************)
EXTENDS Integers, Sequences, FiniteSets, TLC

(***************************************************************************)
(* Strings                                                                 *)
(***************************************************************************)
UpperChars == <<"A","B","C","D","E","F","G","H","I","J","K","L","M","N","O","P","Q","R","S","T","U","V","W","X","Y","Z">>

LowerChars == <<"a","b","c","d","e","f","g","h","i","j","k","l","m","n","o","p","q","r","s","t","u","v","w","x","y","z">>

Digits == {"0","1","2","3","4","5","6","7","8","9"}

\* a function or sequence as an explicit value: TLC keeps [x \in S |-> e]
\* unevaluated and would compute e again at every application
Tuple(f) == SubSeq(f, 1, Len(f))

Table(f) == f @@ << >>

\* str.lower() on one character
LowerChar(c) ==
    IF \E i \in 1..26 : UpperChars[i] = c
    THEN LowerChars[CHOOSE i \in 1..26 : UpperChars[i] = c]
    ELSE c

\* str.lower()
Lower(s) == Tuple([i \in 1..Len(s) |-> LowerChar(s[i])])

\* a character matched by the regular expression \w
IsWordChar(c) ==
    \/ c \in Digits
    \/ c = "_"
    \/ \E i \in 1..26 : UpperChars[i] = c \/ LowerChars[i] = c

IsSpace(c) == c = " "

\* str.strip()
RECURSIVE LStrip(_)
LStrip(s) == IF s # <<>> /\ IsSpace(Head(s)) THEN LStrip(Tail(s)) ELSE s

RECURSIVE RStrip(_)
RStrip(s) ==
    IF s # <<>> /\ IsSpace(s[Len(s)]) THEN RStrip(SubSeq(s, 1, Len(s) - 1)) ELSE s

Strip(s) == RStrip(LStrip(s))

\* t is a prefix of s
StartsWith(s, t) == Len(t) <= Len(s) /\ SubSeq(s, 1, Len(t)) = t

\* Python's `t in s` for strings
Contains(s, t) ==
    \E i \in 1..(Len(s) - Len(t) + 1) : SubSeq(s, i, i + Len(t) - 1) = t

\* str.replace(old, new): non-overlapping occurrences, left to right (old non-empty)
RECURSIVE Replace(_, _, _)
Replace(s, old, new) ==
    IF s = <<>> THEN <<>>
    ELSE IF StartsWith(s, old)
         THEN new \o Replace(SubSeq(s, Len(old) + 1, Len(s)), old, new)
         ELSE <<Head(s)>> \o Replace(Tail(s), old, new)

\* the maximal runs of characters satisfying a class, in order:
\* str.split() for non-space runs, re.findall(r'\w+') for \w runs
RECURSIVE Runs(_, _, _)
Runs(s, cur, words) ==
    IF s = <<>> THEN (IF cur = <<>> THEN <<>> ELSE <<cur>>)
    ELSE IF (IF words THEN IsWordChar(Head(s)) ELSE ~IsSpace(Head(s)))
         THEN Runs(Tail(s), Append(cur, Head(s)), words)
         ELSE (IF cur = <<>> THEN <<>> ELSE <<cur>>) \o Runs(Tail(s), <<>>, words)

Split(s) == Runs(s, <<>>, FALSE)

FindAllWords(s) == Runs(s, <<>>, TRUE)

Range(f) == {f[i] : i \in DOMAIN f}

(***************************************************************************)
(* String literals of the source                                           *)
(***************************************************************************)
S_empty == <<>>

S_xray_dash == <<"x", "-", "r", "a", "y">>

S_xray == <<"x", "r", "a", "y">>

S_investigation == <<"i", "n", "v", "e", "s", "t", "i", "g", "a", "t", "i", "o", "n">>

S_xr == <<"x", "r">>

S_consultation == <<"c", "o", "n", "s", "u", "l", "t", "a", "t", "i", "o", "n">>

S_examination == <<"e", "x", "a", "m", "i", "n", "a", "t", "i", "o", "n">>

S_medical_exam == <<"m", "e", "d", "i", "c", "a", "l", " ", "e", "x", "a", "m">>

(***************************************************************************)
(* The services table: rows [code, description, category, base_price,      *)
(* max_price] in rowid order.  max_price = 0 stands for NULL (the code     *)
(* reads it only through `max_price or base_price`).                       *)
(***************************************************************************)
Row(code, description, category, base_price, max_price) ==
    [code |-> code, description |-> description, category |-> category,
     base_price |-> base_price, max_price |-> max_price]

\* the elements of seq at the indices I, in order
SubseqAt(seq, I) ==
    Tuple([k \in 1..Cardinality(I) |->
             seq[CHOOSE i \in I : Cardinality({j \in I : j < i}) = k - 1]])

\* SELECT DISTINCT: the first occurrence of each row, in scan order
Distinct(rows) ==
    SubseqAt(rows, {i \in 1..Len(rows) : \A j \in 1..(i - 1) : rows[j] # rows[i]})

\* the elements of a sequence that satisfy a condition, in order
SelectWhere(rows, keep) ==
    SubseqAt(rows, {i \in 1..Len(rows) : keep[rows[i]]})

\* list.sort(key=...): the stable sort of seq by the keys key[i], where
\* less[i][j] tells that key[i] < key[j]
StableSort(seq, less) ==
    LET n == Len(seq)
        pos == Tuple([i \in 1..n |->
                  1 + Cardinality({j \in 1..n : less[j][i]})
                    + Cardinality({j \in 1..(i - 1) : ~less[j][i] /\ ~less[i][j]})])
    IN  Tuple([p \in 1..n |-> seq[CHOOSE i \in 1..n : pos[i] = p]])

\* the first n elements: seq[:n]
Take(seq, n) == SubSeq(seq, 1, IF Len(seq) < n THEN Len(seq) ELSE n)

(***************************************************************************)
(* service_mapper_final2.ServiceMapper                                     *)
(***************************************************************************)
\* _score_match(description, code, search_term)
score_match2(description, code, search_term) ==
    IF description = <<>> THEN 0
    ELSE LET d == Lower(description)
             c == Lower(code)
             t == Lower(search_term)
             words == Split(t)
             direct == (IF Contains(d, t) THEN 100 ELSE 0)
                       + (IF Contains(c, t) THEN 50 ELSE 0)
             WordScore[i \in 0..Len(words)] ==
                 IF i = 0 THEN 0
                 ELSE WordScore[i - 1]
                      + (IF Contains(d, words[i]) THEN 20 ELSE 0)
                      + (IF Contains(c, words[i]) THEN 10 ELSE 0)
         IN  direct + WordScore[Len(words)]

\* a sort by the score alone
ScoredBeforeByScore(a, b) == a.score > b.score

\* scored_results.sort(key=lambda x: (-x[0], x[1]["base_price"])): stable
ScoredBefore(a, b) ==
    \/ a.score > b.score
    \/ a.score = b.score /\ a.svc.base_price < b.svc.base_price

SortScored(seq) ==
    StableSort(seq, Tuple([i \in 1..Len(seq) |->
                        Tuple([j \in 1..Len(seq) |-> ScoredBefore(seq[i], seq[j])])]))

\* the dictionary built for a result row
ServiceDict(r) ==
    [description |-> r.description, category |-> r.category, code |-> r.code,
     base_price |-> r.base_price,
     max_price |-> IF r.max_price # 0 THEN r.max_price ELSE r.base_price]

\* the rows fetched by find_services(category, search_term)
find_services2_rows(table, category, search_term) ==
    LET st == Strip(Lower(search_term))
    IN  IF Contains(st, S_xray_dash) \/ Contains(st, S_xray)
        THEN LET location == Strip(Replace(Replace(st, S_xray_dash, <<>>), S_xray, <<>>))
                 keep == [r \in Range(table) |->
                            /\ r.category = "RADIOLOGY"
                            /\ r.base_price > 0
                            /\ \/ Contains(Lower(r.description), S_xray_dash)
                               \/ Contains(Lower(r.description), S_investigation)
                               \/ Contains(Lower(r.code), S_xr)
                               \/ Contains(Lower(r.description), location)]
             IN  Distinct(SelectWhere(table, keep))
        ELSE LET cat == IF category = "Radiology" THEN "RADIOLOGY" ELSE "GENERAL"
                 keep == [r \in Range(table) |->
                            /\ r.category = cat
                            /\ r.base_price > 0
                            /\ \/ Contains(Lower(r.description), st)
                               \/ Contains(Lower(r.code), st)]
             IN  Distinct(SelectWhere(table, keep))

\* find_services(category, search_term): the ten best-scoring rows
find_services2(table, category, search_term) ==
    LET st == Strip(Lower(search_term))
        rows == find_services2_rows(table, category, search_term)
        scored == Tuple([i \in 1..Len(rows) |->
                     [score |-> score_match2(rows[i].description, rows[i].code, st),
                      svc |-> ServiceDict(rows[i])]])
        kept == SelectWhere(scored, [x \in Range(scored) |-> x.score > 0])
        sorted == SortScored(kept)
    IN  Tuple([i \in 1..Len(Take(sorted, 10)) |-> sorted[i].svc])

(***************************************************************************)
(* SQL LIKE on the services table                                          *)
(***************************************************************************)
\* the pieces of a pattern between its % wildcards
RECURSIVE SplitOnPercent(_, _)
SplitOnPercent(p, cur) ==
    IF p = <<>> THEN <<cur>>
    ELSE IF Head(p) = "%"
         THEN <<cur>> \o SplitOnPercent(Tail(p), <<>>)
         ELSE SplitOnPercent(Tail(p), Append(cur, Head(p)))

\* the least index in from..to at which seg occurs in s within from..to, or 0
FindFrom(s, seg, from, to) ==
    LET at == {i \in from..(to - Len(seg) + 1) : SubSeq(s, i, i + Len(seg) - 1) = seg}
    IN  IF at = {} THEN 0 ELSE CHOOSE i \in at : \A j \in at : i <= j

\* the pieces k.. of segs occur in s, in order and without overlap, in from..to
RECURSIVE MatchMiddle(_, _, _, _, _)
MatchMiddle(s, segs, k, from, to) ==
    IF k > Len(segs) - 1 THEN TRUE
    ELSE LET at == FindFrom(s, segs[k], from, to)
         IN  at # 0 /\ MatchMiddle(s, segs, k + 1, at + Len(segs[k]), to)

\* s LIKE p: % matches any run of characters, letters match without regard
\* to case (the patterns of the code hold no _ wildcard)
Like(s, p) ==
    LET ls == Lower(s)
        segs == SplitOnPercent(Lower(p), <<>>)
        n == Len(segs)
    IN  IF n = 1 THEN ls = segs[1]
        ELSE /\ Len(ls) >= Len(segs[1]) + Len(segs[n])
             /\ SubSeq(ls, 1, Len(segs[1])) = segs[1]
             /\ SubSeq(ls, Len(ls) - Len(segs[n]) + 1, Len(ls)) = segs[n]
             /\ MatchMiddle(ls, segs, 2, Len(segs[1]) + 1, Len(ls) - Len(segs[n]))

\* the pattern %text%
Anywhere(text) == <<"%">> \o text \o <<"%">>

(***************************************************************************)
(* service_mapper_final.ServiceMapper                                      *)
(***************************************************************************)
\* " ".join(words)
RECURSIVE Join(_)
Join(words) ==
    IF words = <<>> THEN <<>>
    ELSE IF Len(words) = 1 THEN words[1]
         ELSE words[1] \o <<" ">> \o Join(Tail(words))

\* the replacements of _normalize_text, in the order of the dict
Replacements ==
    <<<<<<"x", "r", "a", "y">>,
        <<"x", "-", "r", "a", "y">>>>,
      <<<<"x", " ", "r", "a", "y">>,
        <<"x", "-", "r", "a", "y">>>>,
      <<<<"x", "-", "r", "a", "y">>,
        <<"i", "n", "v", "e", "s", "t", "i", "g", "a", "t", "i", "o", "n", " ", "x", "-", "r", "a", "y">>>>,
      <<<<"u", "l", "t", "r", "a", " ", "s", "o", "u", "n", "d">>,
        <<"u", "l", "t", "r", "a", "s", "o", "u", "n", "d">>>>,
      <<<<"c", "a", "t", " ", "s", "c", "a", "n">>,
        <<"c", "t", " ", "s", "c", "a", "n">>>>,
      <<<<"c", "a", "t", "-", "s", "c", "a", "n">>,
        <<"c", "t", " ", "s", "c", "a", "n">>>>,
      <<<<"m", "r", "i", " ", "s", "c", "a", "n">>,
        <<"m", "r", "i">>>>,
      <<<<"m", "a", "g", "n", "e", "t", "i", "c", " ", "r", "e", "s", "o", "n", "a", "n", "c", "e">>,
        <<"m", "r", "i">>>>,
      <<<<"c", "h", "e", "s", "t">>,
        <<"i", "n", "v", "e", "s", "t", "i", "g", "a", "t", "i", "o", "n">>>>,
      <<<<"i", "n", "v", "e", "s", "t", "i", "g", "a", "t", "i", "o", "n", " ", "i", "n", "v", "e", "s", "t", "i", "g", "a", "t", "i", "o", "n">>,
        <<"i", "n", "v", "e", "s", "t", "i", "g", "a", "t", "i", "o", "n">>>>>>

RECURSIVE ApplyReplacements(_, _)
ApplyReplacements(text, pairs) ==
    IF pairs = <<>> THEN text
    ELSE ApplyReplacements(Replace(text, pairs[1][1], pairs[1][2]), Tail(pairs))

\* _normalize_text(text)
normalize_text(text) ==
    IF text = <<>> THEN <<>>
    ELSE ApplyReplacements(Join(Split(Lower(text))), Replacements)

\* str.find(word): the first index at which word occurs (0 when it does not)
Find(s, word) == FindFrom(s, word, 1, Len(s))

\* re.search(r'\b' + re.escape(word), s): word occurs at a word boundary
AtWordBoundary(s, word) ==
    \E i \in 1..(Len(s) - Len(word) + 1) :
        /\ SubSeq(s, i, i + Len(word) - 1) = word
        /\ IsWordChar(s[i]) # (i > 1 /\ IsWordChar(s[i - 1]))

\* _score_match(description, search_term)
score_match(description, search_term) ==
    IF description = <<>> \/ search_term = <<>> THEN 0
    ELSE LET d == normalize_text(description)
             t == normalize_text(search_term)
             words == Split(t)
             positions == Tuple([i \in 1..Len(words) |-> Find(d, words[i])])
             phrase == IF Contains(d, t) THEN 100 ELSE 0
             sequence ==
                 IF \A i \in 1..Len(words) : Contains(d, words[i])
                 THEN (IF \A i \in 1..(Len(words) - 1) : positions[i] <= positions[i + 1]
                       THEN 75 ELSE 50)
                 ELSE 0
             WordScore[i \in 0..Len(words)] ==
                 IF i = 0 THEN 0
                 ELSE WordScore[i - 1]
                      + (IF Contains(d, words[i])
                         THEN (IF AtWordBoundary(d, words[i]) THEN 20 ELSE 10)
                         ELSE 0)
             short == IF Len(Split(d)) <= Len(words) + 2 THEN 25 ELSE 0
         IN  phrase + sequence + WordScore[Len(words)] + short

\* "%" + " ".join("%" + w + "%" for w in words) + "%"
WordsPattern(words) ==
    Anywhere(Join(Tuple([i \in 1..Len(words) |-> Anywhere(words[i])])))

Reversed(seq) == Tuple([i \in 1..Len(seq) |-> seq[Len(seq) + 1 - i]])

\* ORDER BY base_price ASC
PriceBefore(a, b) == a.base_price < b.base_price

\* the rows fetched by find_services(category, search_term), lines 73-120
find_services_rows(table, category, search_term) ==
    LET cat == IF category = "Radiology" THEN "RADIOLOGY" ELSE "GENERAL"
    IN  IF Strip(search_term) = <<>>
        THEN LET rows == SelectWhere(table, [r \in Range(table) |->
                             r.category = cat /\ r.base_price > 0])
                 less == Tuple([i \in 1..Len(rows) |->
                             Tuple([j \in 1..Len(rows) |-> PriceBefore(rows[i], rows[j])])])
             IN  Take(StableSort(rows, less), 10)
        ELSE LET st == normalize_text(search_term)
                 words == Split(st)
             IN  SelectWhere(table, [r \in Range(table) |->
                     /\ r.category = cat
                     /\ r.base_price > 0
                     /\ \/ Like(Lower(r.description), Anywhere(st))
                        \/ Like(Lower(r.code), Anywhere(st))
                        \/ Like(Lower(r.description), WordsPattern(words))
                        \/ Like(Lower(r.description), WordsPattern(Reversed(words)))])

\* the search term find_services scores with: normalized at line 106, unless
\* the term is blank
scored_term(search_term) ==
    IF Strip(search_term) = <<>> THEN search_term ELSE normalize_text(search_term)

\* find_services(category, search_term), lines 122-141
find_services(table, category, search_term) ==
    LET rows == find_services_rows(table, category, search_term)
        scored == Tuple([i \in 1..Len(rows) |->
                     [score |-> score_match(rows[i].description, scored_term(search_term)),
                      svc |-> ServiceDict(rows[i])]])
        kept == SelectWhere(scored, [x \in Range(scored) |-> x.score > 0])
        sorted == SortScored(kept)
    IN  Tuple([i \in 1..Len(Take(sorted, 10)) |-> sorted[i].svc])

(***************************************************************************)
(* Python dict with string keys: the entries [key, val] in insertion order *)
(***************************************************************************)
Keys(d) == Tuple([i \in 1..Len(d) |-> d[i].key])

HasKey(d, k) == \E i \in 1..Len(d) : d[i].key = k

\* d[k], for a key k of d
DictGet(d, k) == d[CHOOSE i \in 1..Len(d) : d[i].key = k].val

\* a store that keeps a list of pairs: every write adds one more entry
DictSetAppending(d, k, v) == Append(d, [key |-> k, val |-> v])

\* d[k] = v: an existing key keeps its place and gets the new value
DictSet(d, k, v) ==
    IF HasKey(d, k)
    THEN Tuple([i \in 1..Len(d) |-> IF d[i].key = k THEN [key |-> k, val |-> v] ELSE d[i]])
    ELSE Append(d, [key |-> k, val |-> v])

\* json.load of the object json.dump wrote: the members are inserted in file
\* order, a repeated member name keeping the last value
RECURSIVE json_load(_)
json_load(members) ==
    IF members = <<>> THEN <<>>
    ELSE LET last == members[Len(members)]
         IN  DictSet(json_load(SubSeq(members, 1, Len(members) - 1)), last.key, last.val)

\* json.dump(d, f): one member per entry of the dict
json_dump(d) == d

(***************************************************************************)
(* Tier suffixes of descriptions                                           *)
(***************************************************************************)
S_dash_K == <<"-", "K">>

S_dash_Nk == <<"-", "N", "k">>

S_dash_P == <<"-", "P">>

\* REPLACE(REPLACE(REPLACE(description, '-K', ''), '-Nk', ''), '-P', '')
base_desc(description) ==
    Replace(Replace(Replace(description, S_dash_K, <<>>), S_dash_Nk, <<>>), S_dash_P, <<>>)

(***************************************************************************)
(* service_mapper_v2.ServiceMapper                                         *)
(***************************************************************************)
\* self.service_mappings: the search terms of two of the medical terms
\* (the other medical terms are looked up in the same way)
ServiceMappings ==
    <<[key |-> <<"B", "l", "o", "o", "d", " ", "t", "e", "s", "t", "s">>,
       val |-> <<<<"B", "l", "o", "o", "d", " ", "T", "r", "a", "n", "s", "f", "u", "s", "i", "o", "n">>,
        <<"B", "l", "o", "o", "d", " ", "T", "e", "s", "t">>,
        <<"B", "l", "o", "o", "d", " ", "T", "r", "a", "n", "s", "u", "s", "i", "o", "n">>,
        <<"B", "g", "a">>,
        <<"B", "l", "o", "o", "d">>>>],
      [key |-> <<"C", "o", "n", "s", "u", "l", "t", "a", "t", "i", "o", "n">>,
       val |-> <<<<"C", "o", "n", "s", "u", "l", "t", "a", "t", "i", "o", "n">>,
        <<"C", "l", "i", "n", "i", "c", "a", "l", " ", "C", "o", "n", "s", "u", "l", "t", "a", "n", "c", "y">>,
        <<"M", "e", "d", "i", "c", "a", "l", " ", "C", "o", "n", "s", "u", "l", "t", "a", "t", "i", "o", "n">>>>]>>

\* self.service_mappings["categories"]: its first three entries
MappingCategories == <<"LABORATORY GENERAL", "XRAY", "CLINICS">>

\* the tier read off a description, lines 83-87
tier_of(description) ==
    IF Contains(description, S_dash_Nk) THEN "Nk"
    ELSE IF Contains(description, S_dash_P) THEN "P"
    ELSE "K"

\* the dictionary appended for a result row, lines 89-96
MatchDict(r) ==
    [base_description |-> base_desc(r.description), category |-> r.category,
     description |-> r.description, price |-> r.base_price, code |-> r.code,
     tier |-> tier_of(r.description)]

\* the query of lines 64-75 for one term and one category
v2_rows(table, term, category) ==
    Distinct(SelectWhere(table, [r \in Range(table) |->
        /\ Like(Lower(r.description), Anywhere(Lower(term))) \/ r.category = category
        /\ r.base_price > 0]))

\* the loop over search_terms, lines 63-96.  Unpacking a result row assigns
\* the loop variable category, so the next term is searched with the
\* category of the last row fetched.
RECURSIVE v2_term_loop(_, _, _, _)
v2_term_loop(table, terms, category, matches) ==
    IF terms = <<>> THEN matches
    ELSE LET rows == v2_rows(table, Head(terms), category)
             next_category == IF rows = <<>> THEN category ELSE rows[Len(rows)].category
         IN  v2_term_loop(table, Tail(terms), next_category,
                 matches \o Tuple([i \in 1..Len(rows) |-> MatchDict(rows[i])]))

\* the loop over the categories, line 62
RECURSIVE v2_category_loop(_, _, _, _)
v2_category_loop(table, categories, terms, matches) ==
    IF categories = <<>> THEN matches
    ELSE v2_category_loop(table, Tail(categories), terms,
             v2_term_loop(table, terms, Head(categories), matches))

\* find_matching_services(medical_term)
find_matching_services_v2(table, medical_term) ==
    LET terms == IF HasKey(ServiceMappings, medical_term)
                 THEN DictGet(ServiceMappings, medical_term)
                 ELSE <<medical_term>>
    IN  v2_category_loop(table, MappingCategories, terms, <<>>)

\* a lookup that hands back the first match whatever its tier
first_match_of_any_tier(table, medical_term, tier) ==
    Take(find_matching_services_v2(table, medical_term), 1)

\* get_service_by_tier(medical_term, tier): <<match>>, or <<>> for None
get_service_by_tier(table, medical_term, tier) ==
    LET matches == find_matching_services_v2(table, medical_term)
    IN  Take(SelectWhere(matches, [m \in Range(matches) |-> m.tier = tier]), 1)

(***************************************************************************)
(* cost_predictor_v4.CostPredictor: matching and cost estimates            *)
(***************************************************************************)
TierSuffixes ==
    <<[suffix |-> S_dash_K, name |-> "K"],
      [suffix |-> S_dash_Nk, name |-> "Nk"],
      [suffix |-> S_dash_P, name |-> "P"]>>

\* lines 96-112: for each suffix the first row whose description is LIKE
\* base_desc + suffix + '%', filed under the suffix without its dash
RECURSIVE tiers_of(_, _, _)
tiers_of(table, base, suffixes) ==
    IF suffixes = <<>> THEN <<>>
    ELSE LET found == Take(SelectWhere(table, [r \in Range(table) |->
                          /\ Like(r.description, base \o Head(suffixes).suffix \o <<"%">>)
                          /\ r.base_price > 0]), 1)
             rest == tiers_of(table, base, Tail(suffixes))
         IN  IF found = <<>> THEN rest
             ELSE <<[key |-> Head(suffixes).name,
                     val |-> [description |-> found[1].description,
                              price |-> found[1].base_price,
                              category |-> found[1].category,
                              code |-> found[1].code]]>> \o rest

\* lines 83-93: the distinct (base_desc, category) pairs matching a term
base_services(table, term) ==
    LET rows == SelectWhere(table, [r \in Range(table) |->
                    /\ Like(Lower(r.description), Anywhere(Lower(term)))
                    /\ r.base_price > 0])
    IN  Distinct(Tuple([i \in 1..Len(rows) |->
            [base_desc |-> base_desc(rows[i].description), category |-> rows[i].category]]))

\* lines 82-120
RECURSIVE find_matching_services_v4(_, _)
find_matching_services_v4(table, search_terms) ==
    IF search_terms = <<>> THEN <<>>
    ELSE LET bases == base_services(table, Head(search_terms))
             found == Tuple([i \in 1..Len(bases) |->
                         [base_description |-> bases[i].base_desc,
                          category |-> bases[i].category,
                          tiers |-> tiers_of(table, bases[i].base_desc, TierSuffixes)]])
         IN  SelectWhere(found, [m \in Range(found) |-> m.tiers # <<>>])
             \o find_matching_services_v4(table, Tail(search_terms))

Min(S) == CHOOSE x \in S : \A y \in S : x <= y

Max(S) == CHOOSE x \in S : \A y \in S : x >= y

\* lines 150-168: the cost of one match for one required service
service_cost(service, match) ==
    LET tier_prices == {match.tiers[i].val.price : i \in 1..Len(match.tiers)}
    IN  [service |-> service.name, type |-> service.type,
         matched_service |-> match.base_description, category |-> match.category,
         pricing_tiers |-> Tuple([i \in 1..Len(match.tiers) |->
             [key |-> match.tiers[i].key,
              val |-> [price |-> match.tiers[i].val.price,
                       description |-> match.tiers[i].val.description]]]),
         min_cost |-> Min(tier_prices), max_cost |-> Max(tier_prices)]

\* lines 146-170: the services of one condition
RECURSIVE condition_services(_, _)
condition_services(table, required) ==
    IF required = <<>> THEN <<>>
    ELSE LET service == Head(required)
             matches == find_matching_services_v4(table, <<service.name>> \o service.keywords)
         IN  Tuple([i \in 1..Len(matches) |-> service_cost(service, matches[i])])
             \o condition_services(table, Tail(required))

RECURSIVE SumField(_, _)
SumField(seq, high) ==
    IF seq = <<>> THEN 0
    ELSE (IF high THEN Head(seq).max_cost ELSE Head(seq).min_cost) + SumField(Tail(seq), high)

\* lines 132-136 and 172-173: a condition with the costs of its services
ConditionWith(condition, costs) ==
    [condition |-> condition.condition, probability |-> condition.probability,
     services |-> costs,
     min_cost |-> SumField(costs, FALSE), max_cost |-> SumField(costs, TRUE)]

\* lines 131-174: the estimate of one condition
condition_estimate(table, condition) ==
    ConditionWith(condition, condition_services(table, condition.required_services))

\* lines 125-129 and 177-179: the totals add up the conditions of high probability
EstimateWith(conditions, high) ==
    [conditions |-> conditions,
     total_min |-> SumField(high, FALSE), total_max |-> SumField(high, TRUE)]

HighProbability(conditions) ==
    SelectWhere(conditions, [c \in Range(conditions) |-> c.probability = "high"])

EstimateOf(conditions) == EstimateWith(conditions, HighProbability(conditions))

\* estimate_costs(analysis)
estimate_costs(table, analysis) ==
    EstimateOf(Tuple([i \in 1..Len(analysis.possible_conditions) |->
                   condition_estimate(table, analysis.possible_conditions[i])]))

(***************************************************************************)
(* ai_service_mapper_v4.AIServiceMapper: relationship graph                *)
(***************************************************************************)
\* a list in place of the set: adding a code already there adds it once more
SetAddAppending(s, x) == IF x \in DOMAIN s THEN [s EXCEPT ![x] = @ + 1] ELSE s @@ (x :> 1)

\* set.add on a collection of codes held with multiplicities
SetAdd(s, x) == IF x \in DOMAIN s THEN s ELSE s @@ (x :> 1)

RECURSIVE AddAll(_, _)
AddAll(s, xs) ==
    IF xs = {} THEN s
    ELSE LET x == CHOOSE y \in xs : TRUE
         IN  AddAll(SetAdd(s, x), xs \ {x})

\* relationships[code1] of the defaultdict(set): empty when code1 is no key
Neighbours(rel, code) == IF code \in DOMAIN rel THEN rel[code] ELSE << >>

\* the codes of one cached group: service_code and related_codes of each service
GroupCodes(group) ==
    UNION {{group[i].service_code} \cup Range(group[i].related_codes) : i \in 1..Len(group)}

\* the links of one group made without the test code1 != code2
AddGroupWithSelf(rel, codes) ==
    Table([c \in DOMAIN rel \cup codes |->
        IF c \in codes THEN AddAll(Neighbours(rel, c), codes) ELSE rel[c]])

\* lines 56-59 for one group: every code gets every other code of the group
AddGroup(rel, codes) ==
    LET touched == {c \in codes : codes \ {c} # {}}
    IN  Table([c \in DOMAIN rel \cup touched |->
            IF c \in touched THEN AddAll(Neighbours(rel, c), codes \ {c}) ELSE rel[c]])

\* _build_relationships over the groups of analysis_cache.values(), in order
RECURSIVE build_relationships(_)
build_relationships(groups) ==
    IF groups = <<>> THEN << >>
    ELSE AddGroup(build_relationships(SubSeq(groups, 1, Len(groups) - 1)),
                  GroupCodes(groups[Len(groups)]))

\* the set of codes related to a code
Related(rel, code) == DOMAIN Neighbours(rel, code)

\* the directed edges of the graph
Edges(rel) == {<<c, n>> : c \in DOMAIN rel, n \in DOMAIN rel} \cap
              UNION {{<<c, n>> : n \in DOMAIN rel[c]} : c \in DOMAIN rel}

RECURSIVE SumOver(_, _)
SumOver(f, S) ==
    IF S = {} THEN 0
    ELSE LET x == CHOOSE y \in S : TRUE IN f[x] + SumOver(f, S \ {x})

\* the number of stored edges: the sizes of the adjacency collections, added up
EdgeCount(rel) ==
    SumOver([c \in DOMAIN rel |-> SumOver(rel[c], DOMAIN rel[c])], DOMAIN rel)

(***************************************************************************)
(* ai_service_mapper_v4.AIServiceMapper: cache lookup                      *)
(***************************************************************************)
\* set(re.findall(r'\w+', text.lower()))
WordSet(text) == Range(FindAllWords(Lower(text)))

\* _find_similar_query(query): the loop over the cached queries.  The result
\* tells whether the division raised ZeroDivisionError (both word sets
\* empty), and otherwise best_match (found = FALSE for None) with best_score
\* as the fraction num/den, starting from the threshold 0.5 = 1/2.
RECURSIVE SimilarLoop(_, _, _)
SimilarLoop(keys, query_words, acc) ==
    IF keys = <<>> \/ acc.raised THEN acc
    ELSE LET cached_words == WordSet(Head(keys))
             inter == Cardinality(query_words \cap cached_words)
             union == Cardinality(query_words \cup cached_words)
         IN  IF union = 0
             THEN [acc EXCEPT !.raised = TRUE]
             ELSE IF inter * acc.den > acc.num * union
                  THEN SimilarLoop(Tail(keys), query_words,
                         [raised |-> FALSE, found |-> TRUE, key |-> Head(keys),
                          num |-> inter, den |-> union])
                  ELSE SimilarLoop(Tail(keys), query_words, acc)

find_similar_query(cache, query) ==
    SimilarLoop(Keys(cache), WordSet(query),
                [raised |-> FALSE, found |-> FALSE, key |-> <<>>, num |-> 1, den |-> 2])

\* lines 83-84 of _analyze_query:
\*   cached_query = query if query in cache else self._find_similar_query(query)
\*   if cached_query: ...
\* hit is the truth value of cached_query: None and "" are both false.
cache_lookup(cache, query) ==
    IF HasKey(cache, query)
    THEN [raised |-> FALSE, hit |-> query # <<>>, key |-> query]
    ELSE LET s == find_similar_query(cache, query)
         IN  [raised |-> s.raised, hit |-> ~s.raised /\ s.found /\ s.key # <<>>,
              key |-> s.key]

\* the analysis returned when the OpenAI call or json.loads raises (lines 120-128)
FallbackAnalysis ==
    [category |-> "General", service_type |-> "consultation",
     search_terms |-> <<S_consultation, S_examination>>,
     context |-> "General medical consultation", priority |-> "routine"]

(***************************************************************************)
(* ai_service_mapper_v4.AIServiceMapper.search: terms, matching, sorting   *)
(***************************************************************************)
S_lung == <<"l", "u", "n", "g">>

S_chest == <<"c", "h", "e", "s", "t">>

S_breathing == <<"b", "r", "e", "a", "t", "h", "i", "n", "g">>

S_smoking == <<"s", "m", "o", "k", "i", "n", "g">>

S_cancer == <<"c", "a", "n", "c", "e", "r">>

S_chest_xray_dash == <<"c", "h", "e", "s", "t", " ", "x", "-", "r", "a", "y">>

S_chest_xray == <<"c", "h", "e", "s", "t", " ", "x", "r", "a", "y">>

S_ct_scan_chest == <<"c", "t", " ", "s", "c", "a", "n", " ", "c", "h", "e", "s", "t">>

S_ct_scan == <<"c", "t", " ", "s", "c", "a", "n">>

S_xray_dash_chest == <<"x", "-", "r", "a", "y", " ", "c", "h", "e", "s", "t">>

LungWords == {S_lung, S_chest, S_breathing, S_smoking, S_cancer}

LungTerms ==
    {S_chest_xray_dash, S_chest_xray, S_ct_scan_chest, S_ct_scan,
     S_xray_dash_chest, S_consultation, S_examination}

\* lines 215-232: the set of search terms of a query
build_search_terms(cache, query, analysis) ==
    LET query_lower == Lower(query)
        lung == IF \E w \in LungWords : Contains(query_lower, w) THEN LungTerms ELSE {}
        cached == UNION {Range(cache[i].val.search_terms) :
                          i \in {j \in 1..Len(cache) :
                                   \E t \in Range(cache[j].val.search_terms) :
                                       Contains(query_lower, t)}}
    IN  Range(analysis.search_terms) \cup lung \cup cached

\* line 239
Categories(analysis) ==
    IF analysis.category = "Radiology"
    THEN <<"RADIOLOGY", "GENERAL">> ELSE <<"GENERAL", "RADIOLOGY">>

\* lines 243-247: the services of one find_services result not seen before,
\* stamped with the category searched
RECURSIVE AddUnseen(_, _, _)
AddUnseen(all, services, category) ==
    IF services = <<>> THEN all
    ELSE LET s == Head(services)
             next == IF \E i \in 1..Len(all) : all[i].code = s.code
                     THEN all
                     ELSE Append(all, [s EXCEPT !.category = category])
         IN  AddUnseen(next, Tail(services), category)

\* the inner loop over the terms, for result lists taken in a given order
RECURSIVE AddResults(_, _, _)
AddResults(all, results, category) ==
    IF results = <<>> THEN all
    ELSE AddResults(AddUnseen(all, Head(results), category), Tail(results), category)

\* the permutations of a finite set, as sequences
RECURSIVE Perms(_)
Perms(S) ==
    IF S = {} THEN {<<>>}
    ELSE UNION {{<<x>> \o p : p \in Perms(S \ {x})} : x \in S}

\* lines 238-247.  search_terms is a Python set: its iteration order is not
\* fixed by the program, and is the same in both passes of the category
\* loop.  A term contributes only through the two lists find_services
\* returns for it, so the orders of the terms are taken over the distinct
\* non-empty pairs of lists (a term whose lists are empty, or equal to those
\* of a term already handled, adds nothing).  find[term][category] is what
\* self.service_mapper.find_services(category, term) returns.
collect_services(find, analysis, terms) ==
    LET cats == Categories(analysis)
        found == Table([t \in terms |-> Tuple([c \in 1..2 |-> find[t][cats[c]]])])
        lists == {found[t] : t \in terms} \ {<<<<>>, <<>>>>}
    IN  {LET first == AddResults(<<>>, Tuple([i \in 1..Len(order) |-> order[i][1]]), cats[1])
         IN  AddResults(first, Tuple([i \in 1..Len(order) |-> order[i][2]]), cats[2])
         : order \in Perms(lists)}

\* lines 250-258: the broader search when nothing was found
GeneralTerms == <<S_consultation, S_examination, S_medical_exam>>

broader_search(find, all) ==
    IF all # <<>> THEN all
    ELSE AddResults(<<>>, Tuple([i \in 1..3 |-> find[GeneralTerms[i]]["GENERAL"]]), "GENERAL")

\* the sort key of lines 261-265
SortKey(x, analysis, terms) ==
    <<IF x.category = analysis.category THEN -1 ELSE 0,
      IF \E t \in terms : Contains(Lower(x.description), Lower(t)) THEN -1 ELSE 0,
      x.base_price>>

KeyLess(a, b) ==
    \/ a[1] < b[1]
    \/ a[1] = b[1] /\ a[2] < b[2]
    \/ a[1] = b[1] /\ a[2] = b[2] /\ a[3] < b[3]

\* all_services.sort(key=...): stable
sort_services(seq, analysis, terms) ==
    LET key == Tuple([i \in 1..Len(seq) |-> SortKey(seq[i], analysis, terms)])
        less == Tuple([i \in 1..Len(key) |->
                    Tuple([j \in 1..Len(key) |-> KeyLess(key[i], key[j])])])
    IN  StableSort(seq, less)

\* _get_related_services, lines 132-135: the set `related`
related_codes(rel, services) ==
    UNION {Related(rel, services[i].code) : i \in 1..Len(services)}

\* _get_related_services, lines 132-144: with no related code the list
\* stays empty; with one, line 140 calls find_services_by_code, which no
\* ServiceMapper defines, and AttributeError is raised
get_related_services(rel, services) ==
    IF related_codes(rel, services) = {}
    THEN [status |-> "returned", services |-> <<>>]
    ELSE [status |-> "raised", services |-> <<>>]

\* one section of services_summary: the first n services of a list
Section(name, list, n) ==
    Tuple([i \in 1..Len(Take(list, n)) |-> [section |-> name, code |-> list[i].code]])

\* _get_recommendations, lines 152-176: the services named in the prompt,
\* section by section
services_summary(found, related_services) ==
    Section("Diagnostic Services", SelectWhere(found, [s \in Range(found) |-> s.category = "RADIOLOGY"]), 3)
    \o Section("Consultation Services",
               SelectWhere(found, [s \in Range(found) |-> Contains(Lower(s.description), S_consultation)]), 2)
    \o Section("Examination Services",
               SelectWhere(found, [s \in Range(found) |-> Contains(Lower(s.description), S_examination)]), 2)
    \o Section("Related Services You May Need", related_services, 3)

\* a range taken from the first service alone
price_range_of_first(found) == <<found[1].base_price, found[1].base_price>>

\* the caller of search, lines 54-56: the price range of the services returned
price_range_of(found) ==
    <<Min({found[i].base_price : i \in 1..Len(found)}),
      Max({found[i].base_price : i \in 1..Len(found)})>>

(***************************************************************************)
(* State                                                                   *)
(***************************************************************************)
VARIABLES
    \* AIServiceMapper (ai_service_mapper_v4.py)
    prediction_cache,       \* self.prediction_cache
    cache_file,             \* the members of prediction_cache.json
    disk_ok,                \* whether prediction_cache.json can be opened for writing
    analysis_cache,         \* the groups of analysis_cache.json, in file order
    group_index,            \* how many groups _build_relationships has replayed
    service_relationships,  \* self.service_relationships
    pc,                     \* where search(query) stands
    query,                  \* the argument of search
    analysis,               \* the analysis _analyze_query returned
    search_terms,           \* the set search_terms
    all_services,           \* the list all_services
    outcome,                \* what search gave its caller
    trace,                  \* the stages the current query went through
    stores,                 \* per query text, how often _save_prediction ran
    calls,                  \* searches started so far
    \* the services table and the last query method called on it
    services,               \* the rows of the services table
    call,                   \* the method called and its arguments
    result,                 \* what the call returned
    \* CostPredictor instances (cost_predictor_v4.py) sharing the cache file
    p_cache,                \* per instance, self.cache
    p_pc,                   \* per instance, where it stands
    p_symptoms,             \* per instance, the argument of get_cost_prediction
    p_analysis,             \* per instance, what analyze_symptoms returned
    p_result,               \* per instance, what get_cost_prediction returned
    p_stored,               \* the pairs <<instance, cache key>> saved so far
    p_calls,                \* calls of get_cost_prediction started so far
    \* a cache file and the objects that load and rewrite it
    st_file,                \* the file: missing, corrupt, or valid with its members
    st_obj,                 \* per class: status, in-memory cache, outcome of its last call
    st_ops,                 \* constructions and stores so far
    \* a function wrapped by with_rate_limit_retry
    r_pc,                   \* where the wrapped call stands
    r_attempt,              \* attempts started so far
    r_script,               \* what the function does at each attempt
    r_result,               \* what the caller got
    \* what search's helpers and its caller make of the services found
    related,                \* what _get_related_services gave
    summary,                \* services_summary of _get_recommendations
    price_range,            \* the price range the caller of search reports
    cache_before,           \* the cache, in memory and on disk, as search(query) found it
    \* the baskets of notes/basket_manager.py
    basket_objects,         \* per dict object, its "illnesses"
    basket_cache,           \* basket_cache: per username, the object cached ("none": no entry)
    pantry,                 \* per username, the basket the server holds
    given,                  \* per username, the illnesses its calls named or its basket held at first
    posted,                 \* per username, the illnesses of the basket POSTed to create it
    last_call,              \* the last call: arguments, outcome, and the basket before it
    basket_ops              \* calls made so far

graphVars == <<analysis_cache, group_index, service_relationships>>

dbVars == <<services, call, result>>

predVars == <<p_cache, p_pc, p_symptoms, p_analysis, p_result, p_stored, p_calls>>

searchVars ==
    <<prediction_cache, pc, query, analysis, search_terms, all_services,
      outcome, trace, stores, calls>>

storeVars == <<st_file, st_obj, st_ops>>

retryVars == <<r_pc, r_attempt, r_script, r_result>>

reportVars == <<related, summary, price_range, cache_before>>

basketVars == <<basket_objects, basket_cache, pantry, given, posted, last_call, basket_ops>>

auxVars == <<storeVars, retryVars, basketVars>>

coreVars == <<cache_file, disk_ok, graphVars, searchVars, dbVars, predVars>>

vars == <<coreVars, auxVars, reportVars>>

\* nothing is being replayed, searched, queried or predicted
GraphIdle ==
    /\ analysis_cache = <<>>
    /\ group_index = 0
    /\ service_relationships = << >>

SearchIdle ==
    /\ prediction_cache = <<>>
    /\ pc = "idle"
    /\ query = <<>>
    /\ analysis = <<>>
    /\ search_terms = {}
    /\ all_services = <<>>
    /\ outcome = "none"
    /\ trace = <<>>
    /\ stores = <<>>
    /\ calls = 0

DbIdle ==
    /\ services = <<>>
    /\ call = [op |-> "none"]
    /\ result = <<>>

PredIdle ==
    /\ p_cache = <<>>
    /\ p_pc = <<>>
    /\ p_symptoms = <<>>
    /\ p_analysis = <<>>
    /\ p_result = <<>>
    /\ p_stored = {}
    /\ p_calls = 0

StoreIdle ==
    /\ st_file = <<>>
    /\ st_obj = <<>>
    /\ st_ops = 0

RetryIdle ==
    /\ r_pc = "idle"
    /\ r_attempt = 0
    /\ r_script = <<>>
    /\ r_result = <<>>

ReportIdle ==
    /\ related = [status |-> "none", services |-> <<>>]
    /\ summary = <<>>
    /\ price_range = <<>>
    /\ cache_before = <<<<>>, <<>>>>

\* notes/basket_manager.py: the users, the dict objects and the pantry
Usernames == {"alice", "bob"}

Illnesses == {"flu", "malaria"}

\* the object of the module-level dict DEFAULT_BASKET_DATA
DefaultObject == "DEFAULT"

BasketObjects == {DefaultObject} \cup Usernames

\* what the pantry holds for a username: no basket, or its illnesses
NoBasket == [exists |-> FALSE, illnesses |-> <<>>]

BasketOf(illnesses) == [exists |-> TRUE, illnesses |-> illnesses]

BasketIdle ==
    /\ basket_objects = [o \in BasketObjects |-> <<>>]
    /\ basket_cache = [u \in Usernames |-> "none"]
    /\ pantry = [u \in Usernames |-> NoBasket]
    /\ given = [u \in Usernames |-> {}]
    /\ posted = [u \in Usernames |-> <<>>]
    /\ last_call = [op |-> "none"]
    /\ basket_ops = 0

AuxIdle == StoreIdle /\ RetryIdle /\ BasketIdle

(***************************************************************************)
(* Inputs of the mapper specification                                      *)
(***************************************************************************)
\* the number of searches of one run
MaxQueries == 2

Q_punct == <<"?">>

Q_knee == <<"k", "n", "e", "e">>

Q_Knee == <<"K", "n", "e", "e">>

Q_knee_pain == <<"k", "n", "e", "e", " ", "p", "a", "i", "n">>

Queries == {S_empty, Q_punct, Q_knee, Q_Knee, Q_knee_pain, S_chest}

\* what the collaborator can answer: {category, search_terms, context, priority}
Analyses ==
    {[category |-> "Radiology", service_type |-> "imaging",
      search_terms |-> <<S_xray_dash, Q_knee>>,
      context |-> "imaging", priority |-> "urgent"],
     [category |-> "General", service_type |-> "consultation",
      search_terms |-> <<S_consultation>>,
      context |-> "consultation", priority |-> "routine"]}

C_XR1020 == <<"X", "R", "1", "0", "2", "0">>

C_XR1030 == <<"X", "R", "1", "0", "3", "0">>

C_AC001 == <<"A", "C", "0", "0", "1">>

C_GE002 == <<"G", "E", "0", "0", "2">>

C_LAB01 == <<"L", "A", "B", "0", "1">>

C_LAB02 == <<"L", "A", "B", "0", "2">>

D_chest_xray == <<"C", "h", "e", "s", "t", " ", "X", "-", "r", "a", "y">>

D_knee_xray == <<"K", "n", "e", "e", " ", "X", "-", "r", "a", "y">>

D_consultation_adult == <<"C", "o", "n", "s", "u", "l", "t", "a", "t", "i", "o", "n", " ", "A", "d", "u", "l", "t">>

D_medical_examination == <<"M", "e", "d", "i", "c", "a", "l", " ", "E", "x", "a", "m", "i", "n", "a", "t", "i", "o", "n">>

\* the services table the mapper searches
MapperTable ==
    <<Row(C_XR1020, D_chest_xray, "RADIOLOGY", 500, 0),
      Row(C_AC001, D_consultation_adult, "GENERAL", 150, 0),
      Row(C_XR1030, D_knee_xray, "RADIOLOGY", 400, 0),
      Row(C_GE002, D_medical_examination, "GENERAL", 100, 200)>>

\* every term search can pass to find_services with these inputs
MapperTerms ==
    LungTerms \cup Range(GeneralTerms)
    \cup UNION {Range(a.search_terms) : a \in Analyses \cup {FallbackAnalysis}}

\* self.service_mapper.find_services over MapperTable, tabulated once
MapperFound ==
    Table([t \in MapperTerms |->
        Table([c \in {"RADIOLOGY", "GENERAL"} |-> find_services2(MapperTable, c, t)])])

\* what analysis_cache.json can hold at start-up: the groups, in file order
AnalysisCaches ==
    {<<>>,
     <<<<[service_code |-> C_XR1020, related_codes |-> <<C_AC001>>]>>>>}

(***************************************************************************)
(* AIServiceMapper: construction and search(query), step by step           *)
(***************************************************************************)
\* __init__: prediction_cache.json is absent (_load_cache returns {}), and
\* the graph is built from whatever analysis_cache.json holds
MapperInit ==
    /\ cache_file = <<>>
    /\ disk_ok \in BOOLEAN
    /\ prediction_cache = json_load(cache_file)
    /\ analysis_cache \in AnalysisCaches
    /\ group_index = Len(analysis_cache)
    /\ service_relationships = build_relationships(analysis_cache)
    /\ pc = "idle"
    /\ query = <<>>
    /\ analysis = FallbackAnalysis
    /\ search_terms = {}
    /\ all_services = <<>>
    /\ outcome = "none"
    /\ trace = <<>>
    /\ stores = [q \in Queries |-> 0]
    /\ calls = 0
    /\ DbIdle
    /\ PredIdle
    /\ AuxIdle
    /\ ReportIdle

\* a caller invokes search(q); the previous call has returned or raised
Search(q) ==
    /\ pc \in {"idle", "return", "raised"}
    /\ calls < MaxQueries
    /\ calls' = calls + 1
    /\ pc' = "lookup"
    /\ query' = q
    /\ analysis' = FallbackAnalysis
    /\ search_terms' = {}
    /\ all_services' = <<>>
    /\ outcome' = "none"
    /\ trace' = <<"Received">>
    /\ related' = [status |-> "none", services |-> <<>>]
    /\ summary' = <<>>
    /\ price_range' = <<>>
    /\ cache_before' = <<prediction_cache, cache_file>>
    /\ UNCHANGED <<auxVars, prediction_cache, cache_file, disk_ok, graphVars, dbVars, predVars, stores>>

\* _analyze_query, lines 83-86: a cached analysis is used
CacheHit ==
    /\ pc = "lookup"
    /\ LET r == cache_lookup(prediction_cache, query)
       IN  /\ ~r.raised /\ r.hit
           /\ analysis' = DictGet(prediction_cache, r.key)
    /\ pc' = "terms"
    /\ trace' = trace \o <<"CacheLookup", "CacheHit">>
    /\ UNCHANGED <<auxVars, reportVars, prediction_cache, cache_file, disk_ok, graphVars, dbVars, predVars, query,
                   search_terms, all_services, outcome, stores, calls>>

\* _analyze_query, lines 83-84: no cached analysis is used
CacheMiss ==
    /\ pc = "lookup"
    /\ LET r == cache_lookup(prediction_cache, query)
       IN  ~r.raised /\ ~r.hit
    /\ pc' = "external"
    /\ trace' = trace \o <<"CacheLookup", "CacheMiss">>
    /\ UNCHANGED <<auxVars, reportVars, prediction_cache, cache_file, disk_ok, graphVars, dbVars, predVars, query,
                   analysis, search_terms, all_services, outcome, stores, calls>>

\* _find_similar_query divides by zero; nothing in search catches it
LookupRaises ==
    /\ pc = "lookup"
    /\ cache_lookup(prediction_cache, query).raised
    /\ pc' = "raised"
    /\ outcome' = "ZeroDivisionError"
    /\ trace' = trace \o <<"CacheLookup">>
    /\ UNCHANGED <<auxVars, reportVars, prediction_cache, cache_file, disk_ok, graphVars, dbVars, predVars, query,
                   analysis, search_terms, all_services, stores, calls>>

\* lines 105-116: the collaborator answers and json.loads parses the answer
ExternalSucceeds(a) ==
    /\ pc = "external"
    /\ analysis' = a
    /\ pc' = "store"
    /\ trace' = Append(trace, "ExternalAnalysis")
    /\ UNCHANGED <<auxVars, reportVars, prediction_cache, cache_file, disk_ok, graphVars, dbVars, predVars, query,
                   search_terms, all_services, outcome, stores, calls>>

\* a failure whose fallback analysis is stored like an answer
ExternalFailsStoring ==
    /\ pc = "external"
    /\ analysis' = FallbackAnalysis
    /\ pc' = "store"
    /\ trace' = Append(trace, "ExternalAnalysis")
    /\ UNCHANGED <<auxVars, reportVars, prediction_cache, cache_file, disk_ok, graphVars, dbVars, predVars, query,
                   search_terms, all_services, outcome, stores, calls>>

\* lines 120-128: the call raises, or json.loads raises on the answer
ExternalFails ==
    /\ pc = "external"
    /\ analysis' = FallbackAnalysis
    /\ pc' = "terms"
    /\ trace' = Append(trace, "ExternalAnalysis")
    /\ UNCHANGED <<auxVars, reportVars, prediction_cache, cache_file, disk_ok, graphVars, dbVars, predVars, query,
                   search_terms, all_services, outcome, stores, calls>>

\* _save_prediction(query, result), lines 36-39: the file is rewritten
SavePrediction ==
    /\ pc = "store"
    /\ disk_ok
    /\ prediction_cache' = DictSet(prediction_cache, query, analysis)
    /\ cache_file' = json_dump(prediction_cache')
    /\ stores' = [stores EXCEPT ![query] = @ + 1]
    /\ pc' = "terms"
    /\ trace' = Append(trace, "CacheStore")
    /\ UNCHANGED <<auxVars, reportVars, disk_ok, graphVars, dbVars, predVars, query, analysis, search_terms,
                   all_services, outcome, calls>>

\* _save_prediction, lines 36-41: open() raises after the dict was updated;
\* the exception is caught and reported
SavePredictionFails ==
    /\ pc = "store"
    /\ ~disk_ok
    /\ prediction_cache' = DictSet(prediction_cache, query, analysis)
    /\ stores' = [stores EXCEPT ![query] = @ + 1]
    /\ pc' = "terms"
    /\ trace' = Append(trace, "CacheStore")
    /\ UNCHANGED <<auxVars, reportVars, cache_file, disk_ok, graphVars, dbVars, predVars, query, analysis,
                   search_terms, all_services, outcome, calls>>

\* search, lines 214-258: the search terms and the services found for them
Match ==
    /\ pc = "terms"
    /\ search_terms' = build_search_terms(prediction_cache, query, analysis)
    /\ \E all \in collect_services(MapperFound, analysis, search_terms') :
           all_services' = broader_search(MapperFound, all)
    /\ pc' = "sort"
    /\ trace' = Append(trace, "Match")
    /\ UNCHANGED <<auxVars, reportVars, prediction_cache, cache_file, disk_ok, graphVars, dbVars, predVars, query,
                   analysis, outcome, stores, calls>>

\* search, lines 261-265
Aggregate ==
    /\ pc = "sort"
    /\ all_services' = sort_services(all_services, analysis, search_terms)
    /\ pc' = "recommend"
    /\ trace' = Append(trace, "Aggregate")
    /\ UNCHANGED <<auxVars, reportVars, prediction_cache, cache_file, disk_ok, graphVars, dbVars, predVars, query,
                   analysis, search_terms, outcome, stores, calls>>

\* _get_recommendations: with no service it returns at line 149; otherwise
\* _get_related_services finds no related code, the summary is built, and
\* whether the completion call succeeds or raises, a text is returned and
\* search returns
Return ==
    /\ pc = "recommend"
    /\ IF all_services = <<>>
       THEN /\ related' = [status |-> "none", services |-> <<>>]
            /\ summary' = <<>>
       ELSE /\ related' = get_related_services(service_relationships, all_services)
            /\ related'.status = "returned"
            /\ summary' = services_summary(all_services, related'.services)
    /\ pc' = "return"
    /\ outcome' = "returned"
    /\ trace' = Append(trace, "Return")
    /\ UNCHANGED <<auxVars, price_range, cache_before, prediction_cache, cache_file, disk_ok, graphVars,
                   dbVars, predVars, query, analysis, search_terms, all_services, stores,
                   calls>>

\* _get_related_services, line 140: ServiceMapper has no find_services_by_code,
\* so the first related code raises AttributeError, which nothing catches
RelatedRaises ==
    /\ pc = "recommend"
    /\ all_services # <<>>
    /\ related' = get_related_services(service_relationships, all_services)
    /\ related'.status = "raised"
    /\ pc' = "raised"
    /\ outcome' = "AttributeError"
    /\ UNCHANGED <<auxVars, summary, price_range, cache_before, prediction_cache, cache_file, disk_ok,
                   graphVars, dbVars, predVars, query, analysis, search_terms, all_services,
                   trace, stores, calls>>

\* the caller of search: with services returned, it reports their price range
ReportPrices ==
    /\ pc = "return"
    /\ all_services # <<>>
    /\ price_range = <<>>
    /\ price_range' = price_range_of(all_services)
    /\ UNCHANGED <<auxVars, related, summary, cache_before, coreVars>>

MapperNext ==
    \/ \E q \in Queries : Search(q)
    \/ CacheHit
    \/ CacheMiss
    \/ LookupRaises
    \/ \E a \in Analyses : ExternalSucceeds(a)
    \/ ExternalFails
    \/ SavePrediction
    \/ SavePredictionFails
    \/ Match
    \/ Aggregate
    \/ Return
    \/ RelatedRaises
    \/ ReportPrices

Init == MapperInit

Next == MapperNext

Spec == Init /\ [][Next]_vars

(***************************************************************************)
(* _build_relationships, one group of analysis_cache.values() at a time    *)
(***************************************************************************)
\* the longest analysis cache replayed, before it is doubled
MaxGroups == 2

\* cached groups: lists of services with their related codes
Groups ==
    {<<[service_code |-> C_XR1020, related_codes |-> <<C_AC001>>]>>,
     <<[service_code |-> C_LAB01, related_codes |-> <<C_LAB02>>],
       [service_code |-> C_XR1020, related_codes |-> <<>>]>>,
     <<[service_code |-> C_AC001, related_codes |-> <<C_GE002, C_XR1020>>]>>,
     <<[service_code |-> C_GE002, related_codes |-> <<>>]>>}

GraphBases == UNION {[1..n -> Groups] : n \in 0..MaxGroups}

\* the caches replayed: every base, and every base followed by itself
GraphCaches == GraphBases \cup {b \o b : b \in GraphBases}

GraphInit ==
    /\ analysis_cache \in GraphCaches
    /\ group_index = 0
    /\ service_relationships = << >>
    /\ cache_file = <<>>
    /\ disk_ok = TRUE
    /\ SearchIdle
    /\ DbIdle
    /\ PredIdle
    /\ AuxIdle
    /\ ReportIdle

\* lines 48-59: the next group's codes are collected and linked pairwise
ReplayGroup ==
    /\ group_index < Len(analysis_cache)
    /\ group_index' = group_index + 1
    /\ service_relationships' =
           AddGroup(service_relationships, GroupCodes(analysis_cache[group_index']))
    /\ UNCHANGED <<auxVars, reportVars, analysis_cache, cache_file, disk_ok, searchVars, dbVars, predVars>>

GraphNext == ReplayGroup

SpecGraph == GraphInit /\ [][GraphNext]_vars

\* C10: once the cached analyses have been replayed, replaying the same
\* analyses again changes neither the edge set nor the edge count of the
\* relationship graph.
C10_ReplayIdempotent ==
    [][(\E b \in GraphBases : analysis_cache = b \o b /\ group_index >= Len(b)) =>
          /\ Edges(service_relationships') = Edges(service_relationships)
          /\ EdgeCount(service_relationships') = EdgeCount(service_relationships)]_vars

\* a cache holding the same analyses twice has been replayed to its end,
\* and the graph has edges
C10_ReplayedTwice ==
    \E b \in GraphBases :
        /\ b # <<>>
        /\ analysis_cache = b \o b
        /\ group_index = Len(analysis_cache)
        /\ EdgeCount(service_relationships) > 0

(***************************************************************************)
(* The query methods over the services table                               *)
(***************************************************************************)
\* the number of rows of the largest services table
MaxRows == 3

C_BK_K == <<"B", "K", "-", "K">>

C_BT_K == <<"B", "T", "-", "K">>

C_BT_Nk == <<"B", "T", "-", "N", "k">>

C_BT_P == <<"B", "T", "-", "P">>

C_BP1 == <<"B", "P", "1">>

D_blood_test_ketones_K == <<"B", "l", "o", "o", "d", " ", "T", "e", "s", "t", "-", "K", "e", "t", "o", "n", "e", "s", "-", "K">>

D_blood_test_K == <<"B", "l", "o", "o", "d", " ", "T", "e", "s", "t", "-", "K">>

D_blood_test_Nk == <<"B", "l", "o", "o", "d", " ", "T", "e", "s", "t", "-", "N", "k">>

D_blood_test_P == <<"B", "l", "o", "o", "d", " ", "T", "e", "s", "t", "-", "P">>

D_blood_pressure_check_K == <<"B", "l", "o", "o", "d", "-", "P", "r", "e", "s", "s", "u", "r", "e", " ", "C", "h", "e", "c", "k", "-", "K">>

\* the rows the tables are made of, in rowid order
ServicePool ==
    <<Row(C_XR1020, D_chest_xray, "RADIOLOGY", 500, 0),
      Row(C_AC001, D_consultation_adult, "GENERAL", 150, 0),
      Row(C_BK_K, D_blood_test_ketones_K, "LABORATORY GENERAL", 900, 0),
      Row(C_BT_K, D_blood_test_K, "LABORATORY GENERAL", 200, 0),
      Row(C_BT_Nk, D_blood_test_Nk, "LABORATORY GENERAL", 350, 0),
      Row(C_BT_P, D_blood_test_P, "CLINICS", 500, 0),
      Row(C_BP1, D_blood_pressure_check_K, "CLINICS", 100, 0)>>

\* every table of at most MaxRows rows of the pool
ServiceTables ==
    {SubseqAt(ServicePool, I) :
        I \in {J \in SUBSET (1..Len(ServicePool)) : Cardinality(J) <= MaxRows}}

Q_xray_chest == <<"x", "r", "a", "y", " ", "c", "h", "e", "s", "t">>

Q_blood_tests == <<"B", "l", "o", "o", "d", " ", "t", "e", "s", "t", "s">>

Q_blood_test == <<"B", "l", "o", "o", "d", " ", "T", "e", "s", "t">>

Q_blood == <<"B", "l", "o", "o", "d">>

Q_Consultation == <<"C", "o", "n", "s", "u", "l", "t", "a", "t", "i", "o", "n">>

Q_xyz == <<"X", "y", "z">>

\* the arguments of find_services
SearchCategories == {"Radiology", "RADIOLOGY", "General"}

SearchQueries ==
    {S_chest_xray_dash, Q_xray_chest, S_consultation, S_chest, S_empty, S_xray_dash, S_xray}

Q_test_blood == <<"t", "e", "s", "t", " ", "b", "l", "o", "o", "d">>

Q_lood == <<"l", "o", "o", "d">>

Q_blood_ketones == <<"b", "l", "o", "o", "d", " ", "k", "e", "t", "o", "n", "e", "s">>

Q_blank == <<" ">>

D_full_blood_test == <<"F", "u", "l", "l", " ", "B", "l", "o", "o", "d", " ", "T", "e", "s", "t", " ", "F", "o", "r", " ", "M", "a", "l", "a", "r", "i", "a", " ", "P", "a", "r", "a", "s", "i", "t", "e", "s">>

D_blood_test_blood_group == <<"B", "l", "o", "o", "d", " ", "T", "e", "s", "t", " ", "B", "l", "o", "o", "d", " ", "G", "r", "o", "u", "p">>

\* the arguments of _score_match
ScoreDescriptions ==
    {ServicePool[i].description : i \in 1..Len(ServicePool)}
    \cup {D_full_blood_test, D_blood_test_blood_group}

ScoreTerms ==
    {S_chest_xray_dash, Q_xray_chest, Q_blood_test, Q_test_blood, Q_lood, Q_blood_ketones,
     S_consultation, Q_blank}

Q_magnetic_resonance_scan == <<"M", "a", "g", "n", "e", "t", "i", "c", " ", "R", "e", "s", "o", "n", "a", "n", "c", "e", " ", "S", "c", "a", "n">>

Q_chest_chest_chest == <<"c", "h", "e", "s", "t", " ", "c", "h", "e", "s", "t", " ", "c", "h", "e", "s", "t">>

\* the arguments of _normalize_text
NormalizeTexts ==
    ScoreDescriptions \cup ScoreTerms \cup SearchQueries
    \cup {Q_magnetic_resonance_scan, Q_chest_chest_chest}

\* the arguments of get_service_by_tier
MedicalTerms == {Q_blood_tests, Q_blood_test, Q_Consultation, Q_xyz}

TierNames == {"K", "Nk", "P"}

\* the required services whose costs are estimated
ServiceNames == {Q_blood_test, Q_blood, S_chest, Q_xyz}

\* an analysis with one condition that requires one service
AnalysisFor(name, probability) ==
    [possible_conditions |->
        <<[condition |-> "condition", probability |-> probability,
           required_services |-> <<[name |-> name, type |-> "test", keywords |-> <<>>]>>]>>]

CatalogInit ==
    /\ services \in ServiceTables
    /\ call = [op |-> "none"]
    /\ result = <<>>
    /\ cache_file = <<>>
    /\ disk_ok = TRUE
    /\ GraphIdle
    /\ SearchIdle
    /\ PredIdle
    /\ AuxIdle
    /\ ReportIdle

\* service_mapper_final.ServiceMapper.find_services(category, search_term)
FindServices(category, term) ==
    /\ call.op = "none"
    /\ call' = [op |-> "find_services", category |-> category, term |-> term]
    /\ result' = find_services(services, category, term)
    /\ UNCHANGED <<auxVars, reportVars, services, cache_file, disk_ok, graphVars, searchVars, predVars>>

\* service_mapper_final2.ServiceMapper.find_services(category, search_term)
FindServices2(category, term) ==
    /\ call.op = "none"
    /\ call' = [op |-> "find_services2", category |-> category, term |-> term]
    /\ result' = find_services2(services, category, term)
    /\ UNCHANGED <<auxVars, reportVars, services, cache_file, disk_ok, graphVars, searchVars, predVars>>

\* service_mapper_v2.ServiceMapper.get_service_by_tier(medical_term, tier)
GetServiceByTier(term, tier) ==
    /\ call.op = "none"
    /\ call' = [op |-> "get_service_by_tier", term |-> term, tier |-> tier]
    /\ result' = get_service_by_tier(services, term, tier)
    /\ UNCHANGED <<auxVars, reportVars, services, cache_file, disk_ok, graphVars, searchVars, predVars>>

\* service_mapper_final.ServiceMapper._normalize_text(text)
NormalizeText(text) ==
    /\ call.op = "none"
    /\ call' = [op |-> "normalize_text", text |-> text]
    /\ result' = <<normalize_text(text)>>
    /\ UNCHANGED <<auxVars, reportVars, services, cache_file, disk_ok, graphVars, searchVars, predVars>>

\* service_mapper_v2.ServiceMapper.find_matching_services(medical_term)
FindMatchingServices(term) ==
    /\ call.op = "none"
    /\ call' = [op |-> "find_matching_services", term |-> term]
    /\ result' = find_matching_services_v2(services, term)
    /\ UNCHANGED <<auxVars, reportVars, services, cache_file, disk_ok, graphVars, searchVars, predVars>>

\* cost_predictor_v4.CostPredictor.estimate_costs(analysis)
EstimateCosts(name, probability) ==
    /\ call.op = "none"
    /\ call' = [op |-> "estimate_costs", term |-> name, probability |-> probability]
    /\ result' = estimate_costs(services, AnalysisFor(name, probability))
    /\ UNCHANGED <<auxVars, reportVars, services, cache_file, disk_ok, graphVars, searchVars, predVars>>

\* service_mapper_final.ServiceMapper._score_match(description, search_term)
ScoreMatch(description, term) ==
    /\ call.op = "none"
    /\ call' = [op |-> "score_match", description |-> description, term |-> term]
    /\ result' = <<score_match(description, term)>>
    /\ UNCHANGED <<auxVars, reportVars, services, cache_file, disk_ok, graphVars, searchVars, predVars>>

CatalogNext ==
    \/ \E d \in ScoreDescriptions, t \in ScoreTerms : ScoreMatch(d, t)
    \/ \E c \in SearchCategories, q \in SearchQueries : FindServices(c, q)
    \/ \E c \in SearchCategories, q \in SearchQueries : FindServices2(c, q)
    \/ \E m \in MedicalTerms, tier \in TierNames : GetServiceByTier(m, tier)
    \/ \E m \in MedicalTerms : FindMatchingServices(m)
    \/ \E x \in NormalizeTexts : NormalizeText(x)
    \/ \E n \in ServiceNames, p \in {"high", "low"} : EstimateCosts(n, p)

SpecCatalog == CatalogInit /\ [][CatalogNext]_vars

\* the catalog of the end-to-end example
CatalogC7 ==
    <<Row(C_XR1020, D_chest_xray, "RADIOLOGY", 500, 0),
      Row(C_AC001, D_consultation_adult, "GENERAL", 150, 0)>>

\* the score find_services gave the first service it returned
TopScore ==
    IF call.op = "find_services"
    THEN score_match(result[1].description, scored_term(call.term))
    ELSE score_match2(result[1].description, result[1].code, Strip(Lower(call.term)))

\* C7: on the catalog {XR1020 'Chest X-ray' RADIOLOGY 500, AC001
\* 'Consultation Adult' GENERAL 150}, a radiology search for 'chest x-ray'
\* returns XR1020 first, in RADIOLOGY, at price 500 and with score >= 175,
\* and a search for 'xray chest' returns the same first service.
C7_EndToEndMatch ==
    (/\ services = CatalogC7
     /\ call.op \in {"find_services", "find_services2"}
     /\ call.category = "Radiology"
     /\ call.term \in {S_chest_xray_dash, Q_xray_chest}) =>
        /\ result # <<>>
        /\ result[1].code = C_XR1020
        /\ result[1].category = "RADIOLOGY"
        /\ result[1].base_price = 500
        /\ call.term = S_chest_xray_dash => TopScore >= 175

\* the prices of the rows that are the K, Nk or P variant of a base description
VariantPrices(table, base) ==
    {table[i].base_price : i \in {j \in 1..Len(table) :
        table[j].description \in {base \o S_dash_K, base \o S_dash_Nk, base \o S_dash_P}}}

\* C8: the price range estimated for a base service is the minimum and the
\* maximum over the prices of exactly its K, Nk and P variants in the
\* catalog; a tier without a variant contributes nothing.
C8_RangeOverExistingVariants ==
    call.op = "estimate_costs" =>
        \A i \in 1..Len(result.conditions) :
            \A k \in 1..Len(result.conditions[i].services) :
                LET cost == result.conditions[i].services[k]
                    prices == VariantPrices(services, cost.matched_service)
                IN  /\ prices # {}
                    /\ cost.min_cost = Min(prices)
                    /\ cost.max_cost = Max(prices)

\* the end-to-end example of the range: BT-K at 200 and BT-Nk at 350 alone
\* give the range (200, 350)
C8_BloodTestExample ==
    /\ services = <<ServicePool[4], ServicePool[5]>>
    /\ call.op = "estimate_costs"
    /\ call.term = Q_blood_test
    /\ Len(result.conditions[1].services) = 1
    /\ result.conditions[1].services[1].min_cost = 200
    /\ result.conditions[1].services[1].max_cost = 350

\* C9: get_service_by_tier returns nothing, or a record whose tier is the
\* tier asked for.
C9_TierOfResult ==
    call.op = "get_service_by_tier" =>
        result = <<>> \/ result[1].tier = call.tier

\* a record of the requested tier was returned although the first match of
\* the term has another tier
C9_LaterMatchReturned ==
    /\ call.op = "get_service_by_tier"
    /\ result # <<>>
    /\ result[1].tier = call.tier
    /\ find_matching_services_v2(services, call.term)[1].tier # call.tier

(***************************************************************************)
(* cost_predictor_v4.CostPredictor: get_cost_prediction, step by step, for *)
(* two instances (processes) that share prediction_cache.json              *)
(***************************************************************************)
\* the key a query text is filed under: cache_key = symptoms.lower().strip()
normalize_key(text) == Strip(Lower(text))

\* the number of calls of get_cost_prediction in one run
MaxPredictions == 2

Instances == {"first", "second"}

P_Headache == <<"H", "e", "a", "d", "a", "c", "h", "e">>

P_headache_spaced == <<" ", "h", "e", "a", "d", "a", "c", "h", "e", " ">>

P_fever == <<"f", "e", "v", "e", "r">>

Symptoms == {P_Headache, P_headache_spaced, P_fever}

\* what analyze_symptoms can return when the call and json.loads succeed
PredictorAnalyses == {AnalysisFor(Q_blood_test, "high"), AnalysisFor(S_chest, "low")}

\* what analyze_symptoms returns when they raise, lines 72-76
FailedAnalysis == [possible_conditions |-> <<>>, error |-> "error"]

\* _generate_recommendations(analysis, cost_estimates)
generate_recommendations(a, cost_estimates) ==
    LET high == SelectWhere(a.possible_conditions,
                    [c \in Range(a.possible_conditions) |-> c.probability = "high"])
        phased == SelectWhere(high, [c \in Range(high) |-> Len(c.required_services) > 2])
    IN  (IF cost_estimates.total_max > 10000
         THEN <<<<"Consider getting treatment under NHIF coverage to reduce costs">>,
                <<"Ask about available payment plans or financial assistance">>>>
         ELSE <<>>)
        \o Tuple([i \in 1..Len(phased) |->
               <<"For ", phased[i].condition,
                 ", discuss with your doctor if all tests can be done in phases">>])
        \o <<<<"Prices vary by tier (K, Nk, P). Discuss with the hospital which tier applies to you">>>>

\* lines 194-205: the prediction built from an analysis
PredictionWith(a, cost_estimates) ==
    [analysis |-> a, cost_estimates |-> cost_estimates,
     recommendations |-> generate_recommendations(a, cost_estimates)]

prediction_of(table, a) == PredictionWith(a, estimate_costs(table, a))

PredictorInit ==
    /\ cache_file = <<>>
    /\ disk_ok = TRUE
    /\ services = <<ServicePool[4], ServicePool[5]>>
    /\ call = [op |-> "none"]
    /\ result = <<>>
    /\ p_cache = [i \in Instances |-> <<>>]
    /\ p_pc = [i \in Instances |-> "new"]
    /\ p_symptoms = [i \in Instances |-> <<>>]
    /\ p_analysis = [i \in Instances |-> <<>>]
    /\ p_result = [i \in Instances |-> <<>>]
    /\ p_stored = {}
    /\ p_calls = 0
    /\ AuxIdle
    /\ ReportIdle
    /\ GraphIdle
    /\ SearchIdle

\* __init__: load_cache reads the file as it is now
Construct(i) ==
    /\ p_pc[i] = "new"
    /\ p_cache' = [p_cache EXCEPT ![i] = json_load(cache_file)]
    /\ p_pc' = [p_pc EXCEPT ![i] = "idle"]
    /\ UNCHANGED <<auxVars, reportVars, p_symptoms, p_analysis, p_result, p_stored, p_calls,
                   cache_file, disk_ok, graphVars, searchVars, dbVars>>

\* get_cost_prediction(symptoms), lines 185-187: the key is in self.cache
PredictCached(i, s) ==
    /\ p_pc[i] = "idle"
    /\ p_calls < MaxPredictions
    /\ HasKey(p_cache[i], normalize_key(s))
    /\ p_calls' = p_calls + 1
    /\ p_symptoms' = [p_symptoms EXCEPT ![i] = s]
    /\ p_result' = [p_result EXCEPT ![i] = DictGet(p_cache[i], normalize_key(s))]
    /\ UNCHANGED <<auxVars, reportVars, p_cache, p_pc, p_analysis, p_stored,
                   cache_file, disk_ok, graphVars, searchVars, dbVars>>

\* get_cost_prediction(symptoms), lines 185-190: the key is not in self.cache
PredictStart(i, s) ==
    /\ p_pc[i] = "idle"
    /\ p_calls < MaxPredictions
    /\ ~HasKey(p_cache[i], normalize_key(s))
    /\ p_calls' = p_calls + 1
    /\ p_symptoms' = [p_symptoms EXCEPT ![i] = s]
    /\ p_result' = [p_result EXCEPT ![i] = <<>>]
    /\ p_pc' = [p_pc EXCEPT ![i] = "analyze"]
    /\ UNCHANGED <<auxVars, reportVars, p_cache, p_analysis, p_stored,
                   cache_file, disk_ok, graphVars, searchVars, dbVars>>

\* analyze_symptoms returns an analysis; lines 194-208 estimate the costs,
\* build the prediction and put it into self.cache
AnalyzeSucceeds(i, a) ==
    /\ p_pc[i] = "analyze"
    /\ p_analysis' = [p_analysis EXCEPT ![i] = a]
    /\ p_cache' = [p_cache EXCEPT ![i] =
           DictSet(@, normalize_key(p_symptoms[i]), prediction_of(services, a))]
    /\ p_pc' = [p_pc EXCEPT ![i] = "save"]
    /\ UNCHANGED <<auxVars, reportVars, p_symptoms, p_result, p_stored, p_calls,
                   cache_file, disk_ok, graphVars, searchVars, dbVars>>

\* analyze_symptoms catches the failure and returns an error analysis;
\* lines 190-192 return the error to the caller
AnalyzeFails(i) ==
    /\ p_pc[i] = "analyze"
    /\ p_analysis' = [p_analysis EXCEPT ![i] = FailedAnalysis]
    /\ p_result' = [p_result EXCEPT ![i] = [error |-> FailedAnalysis.error]]
    /\ p_pc' = [p_pc EXCEPT ![i] = "idle"]
    /\ UNCHANGED <<auxVars, reportVars, p_cache, p_symptoms, p_stored, p_calls,
                   cache_file, disk_ok, graphVars, searchVars, dbVars>>

\* save_cache() rewrites the file from self.cache, and the prediction is returned
SaveCache(i) ==
    /\ p_pc[i] = "save"
    /\ cache_file' = json_dump(p_cache[i])
    /\ p_stored' = p_stored \cup {<<i, normalize_key(p_symptoms[i])>>}
    /\ p_result' = [p_result EXCEPT ![i] = DictGet(p_cache[i], normalize_key(p_symptoms[i]))]
    /\ p_pc' = [p_pc EXCEPT ![i] = "idle"]
    /\ UNCHANGED <<auxVars, reportVars, p_cache, p_symptoms, p_analysis, p_calls,
                   disk_ok, graphVars, searchVars, dbVars>>

PredictorNext ==
    \/ \E i \in Instances : Construct(i)
    \/ \E i \in Instances, s \in Symptoms : PredictCached(i, s)
    \/ \E i \in Instances, s \in Symptoms : PredictStart(i, s)
    \/ \E i \in Instances, a \in PredictorAnalyses : AnalyzeSucceeds(i, a)
    \/ \E i \in Instances : AnalyzeFails(i)
    \/ \E i \in Instances : SaveCache(i)

SpecPredictor == PredictorInit /\ [][PredictorNext]_vars

\* C3: a query whose external analysis failed is not failed: it is given
\* a fallback analysis, goes on through matching, and returns a result
\* with cost estimates, not an error.
C3_FailureFallsBack ==
    \A i \in Instances :
        p_analysis[i] = FailedAnalysis /\ p_pc[i] = "idle" =>
            /\ "error" \notin DOMAIN p_result[i]
            /\ "cost_estimates" \in DOMAIN p_result[i]

\* C6: once no store is in progress, every entry an instance has stored is
\* in the cache of that instance and in the persisted cache file, whatever
\* the interleaving of the instances' load, put and save steps.
C6_NoLostUpdates ==
    (\A i \in Instances : p_pc[i] = "idle") =>
        \A s \in p_stored :
            /\ HasKey(p_cache[s[1]], s[2])
            /\ HasKey(cache_file, s[2])

(***************************************************************************)
(* Properties of the query cache and of search                             *)
(***************************************************************************)
\* the entries of a cache whose key normalizes to the key of text
EntriesFor(cache, text) ==
    {i \in 1..Len(cache) : normalize_key(cache[i].key) = normalize_key(text)}

\* C1: every execution of the cache store for a query, the second one for
\* the same query included, leaves exactly one entry under the query's
\* normalized key, holding the value just written, and leaves the entries
\* under all other keys as they were.
C1_StoreIdempotent ==
    [][(pc = "store" /\ pc' = "terms") =>
          /\ Cardinality(EntriesFor(prediction_cache', query)) = 1
          /\ \A i \in EntriesFor(prediction_cache', query) :
                 prediction_cache'[i].val = analysis
          /\ Range(Keys(prediction_cache')) = Range(Keys(prediction_cache)) \cup {query}
          /\ Len(prediction_cache') = Cardinality(Range(Keys(prediction_cache')))
          /\ \A k \in Range(Keys(prediction_cache)) \ {query} :
                 DictGet(prediction_cache', k) = DictGet(prediction_cache, k)]_vars

\* the store has run twice for the same query text, and the cache holds it
C1_StoredTwice ==
    \E q \in Queries : stores[q] = 2 /\ HasKey(prediction_cache, q)

\* |a & b| / |a | b| > 1/2, with 0/0 exceeding nothing
JaccardExceedsHalf(a, b) ==
    2 * Cardinality(WordSet(a) \cap WordSet(b)) > Cardinality(WordSet(a) \cup WordSet(b))

\* key a is at least as similar to text as key b: a/ua >= b/ub
AtLeastAsSimilar(text, a, b) ==
    Cardinality(WordSet(text) \cap WordSet(a)) * Cardinality(WordSet(text) \cup WordSet(b))
        >= Cardinality(WordSet(text) \cap WordSet(b)) * Cardinality(WordSet(text) \cup WordSet(a))

\* the cached keys of highest similarity to text among those above 1/2
BestKeys(cache, text) ==
    LET above == {k \in Range(Keys(cache)) : JaccardExceedsHalf(text, k)}
    IN  {k \in above : \A other \in above : AtLeastAsSimilar(text, k, other)}

\* C2: the lookup step uses the entry under the exact key when there is
\* one; otherwise the entry of a key of highest Jaccard similarity above
\* 0.5; and reports a miss (going on to the external analysis) when no
\* cached key exceeds 0.5.
C2_LookupExactThenSimilar ==
    [][pc = "lookup" /\ pc' # "lookup" =>
          IF HasKey(prediction_cache, query)
          THEN pc' = "terms" /\ analysis' = DictGet(prediction_cache, query)
          ELSE IF BestKeys(prediction_cache, query) # {}
               THEN /\ pc' = "terms"
                    /\ \E k \in BestKeys(prediction_cache, query) :
                           analysis' = DictGet(prediction_cache, k)
               ELSE pc' = "external"]_vars

\* C4: search never raises to its caller, whatever the query, the cached
\* analyses and the relationship graph.
C4_SearchNeverRaises ==
    pc # "raised" /\ outcome \in {"none", "returned"}

IsPrefix(s, full) == Len(s) <= Len(full) /\ s = SubSeq(full, 1, Len(s))

HitPath == <<"Received", "CacheLookup", "CacheHit", "Return">>

MissPath ==
    <<"Received", "CacheLookup", "CacheMiss", "ExternalAnalysis", "Match",
      "TierResolve", "Aggregate", "CacheStore", "Return">>

\* C5: the stages of a query occur in the order Received, CacheLookup,
\* then CacheHit, Return or CacheMiss, ExternalAnalysis, Match, TierResolve,
\* Aggregate, CacheStore, Return; a query that has ended has reached Return
\* by one of the two complete paths.
C5_StageOrder ==
    /\ IsPrefix(trace, HitPath) \/ IsPrefix(trace, MissPath)
    /\ pc \in {"return", "raised"} => trace \in {HitPath, MissPath}

(***************************************************************************)
(* The cache file: loading at startup and rewriting at each store          *)
(***************************************************************************)
\* constructions, restarts and stores of one run
MaxOps == 3

StoreClasses == {"AIServiceMapper", "CostPredictor", "RobustServiceMapper"}

StoreKeys == {Q_knee, P_fever}

\* the file as open() and json.load find it
MissingFile == [state |-> "missing", members |-> <<>>]

CorruptFile == [state |-> "corrupt", members |-> <<>>]

ValidFile(members) == [state |-> "valid", members |-> members]

StoreFiles ==
    {MissingFile, CorruptFile, ValidFile(<<>>),
     ValidFile(<<[key |-> Q_knee, val |-> FallbackAnalysis]>>)}

\* AIServiceMapper._load_cache: FileNotFoundError and JSONDecodeError are
\* caught and give {}
mapper_load_cache(file) ==
    IF file.state = "valid"
    THEN [raised |-> FALSE, cache |-> json_load(file.members)]
    ELSE [raised |-> FALSE, cache |-> <<>>]

\* CostPredictor.load_cache: an absent file gives {}; json.load of a file
\* that is not JSON raises JSONDecodeError, which nothing catches
predictor_load_cache(file) ==
    IF file.state = "missing" THEN [raised |-> FALSE, cache |-> <<>>]
    ELSE IF file.state = "valid" THEN [raised |-> FALSE, cache |-> json_load(file.members)]
    ELSE [raised |-> TRUE, cache |-> <<>>]

\* RobustServiceMapper.load_cache: the same test and the same json.load
robust_load_cache(file) ==
    IF file.state = "missing" THEN [raised |-> FALSE, cache |-> <<>>]
    ELSE IF file.state = "valid" THEN [raised |-> FALSE, cache |-> json_load(file.members)]
    ELSE [raised |-> TRUE, cache |-> <<>>]

load_cache_of(c, file) ==
    IF c = "AIServiceMapper" THEN mapper_load_cache(file)
    ELSE IF c = "CostPredictor" THEN predictor_load_cache(file)
    ELSE robust_load_cache(file)

\* no store was asked of the object yet
NoStore == [key |-> <<>>, written |-> TRUE, outcome |-> "none"]

NewObject == [status |-> "new", cache |-> <<>>, loaded_from |-> "none", stored |-> 0,
              last |-> NoStore]

\* the files a rewrite leaves: the dumped dict when the write succeeds;
\* when it fails, the file as it was (open raised) or a truncated file
\* (the write raised after open truncated it)
FilesAfterWrite(file, cache, ok) ==
    IF ok THEN {ValidFile(json_dump(cache))} ELSE {file, CorruptFile}

StoreInit ==
    /\ st_file \in StoreFiles
    /\ st_obj = [c \in StoreClasses |-> NewObject]
    /\ st_ops = 0
    /\ cache_file = <<>>
    /\ disk_ok \in BOOLEAN
    /\ GraphIdle
    /\ SearchIdle
    /\ DbIdle
    /\ PredIdle
    /\ RetryIdle
    /\ BasketIdle
    /\ ReportIdle

\* the constructor of the class (for RobustServiceMapper, the load_cache call
\* that starts its run) reads the file
LoadCache(c) ==
    /\ st_obj[c].status = "new"
    /\ st_ops < MaxOps
    /\ st_ops' = st_ops + 1
    /\ LET r == load_cache_of(c, st_file)
       IN  st_obj' = [st_obj EXCEPT ![c] =
               [status |-> IF r.raised THEN "raised" ELSE "ready",
                cache |-> r.cache, loaded_from |-> st_file.state, stored |-> 0,
                last |-> NoStore]]
    /\ UNCHANGED <<st_file, coreVars, retryVars, reportVars, basketVars>>

\* the process ends; a later one constructs the class again
Restart(c) ==
    /\ st_obj[c].status \in {"ready", "raised"}
    /\ st_obj' = [st_obj EXCEPT ![c] = NewObject]
    /\ UNCHANGED <<st_file, st_ops, coreVars, retryVars, reportVars, basketVars>>

\* AIServiceMapper._save_prediction(query, analysis): the dict is updated,
\* the file rewritten; an exception of open or json.dump is caught
MapperSave(k, v) ==
    /\ st_obj["AIServiceMapper"].status = "ready"
    /\ st_ops < MaxOps
    /\ st_ops' = st_ops + 1
    /\ LET cache == DictSet(st_obj["AIServiceMapper"].cache, k, v)
       IN  /\ st_file' \in FilesAfterWrite(st_file, cache, disk_ok)
           /\ st_obj' = [st_obj EXCEPT !["AIServiceMapper"] =
                  [@ EXCEPT !.cache = cache, !.stored = 1,
                            !.last = [key |-> k, written |-> disk_ok,
                                      outcome |-> "returned"]]]
    /\ UNCHANGED <<coreVars, retryVars, reportVars, basketVars>>

\* CostPredictor.get_cost_prediction, lines 207-211: the dict is updated,
\* save_cache rewrites the file, the prediction is returned; an exception of
\* save_cache leaves get_cost_prediction
PredictorStore(k, v) ==
    /\ st_obj["CostPredictor"].status = "ready"
    /\ st_ops < MaxOps
    /\ st_ops' = st_ops + 1
    /\ LET cache == DictSet(st_obj["CostPredictor"].cache, k, v)
       IN  /\ st_file' \in FilesAfterWrite(st_file, cache, disk_ok)
           /\ st_obj' = [st_obj EXCEPT !["CostPredictor"] =
                  [@ EXCEPT !.cache = cache, !.stored = 1,
                            !.last = [key |-> k, written |-> disk_ok,
                                      outcome |-> IF disk_ok THEN "returned"
                                                  ELSE "raised"]]]
    /\ UNCHANGED <<coreVars, retryVars, reportVars, basketVars>>

StoreNext ==
    \/ \E c \in StoreClasses : LoadCache(c)
    \/ \E c \in StoreClasses : Restart(c)
    \/ \E k \in StoreKeys, v \in Analyses : MapperSave(k, v)
    \/ \E k \in StoreKeys, v \in Analyses : PredictorStore(k, v)

SpecStore == StoreInit /\ [][StoreNext]_vars

\* C11: an object constructed on a cache file that is missing or is not
\* valid JSON is constructed without an exception, and its cache is empty
\* until it stores something.
C11_StartupSurvivesBadStore ==
    \A c \in StoreClasses :
        st_obj[c].loaded_from \in {"missing", "corrupt"} =>
            /\ st_obj[c].status = "ready"
            /\ st_obj[c].stored = 0 => st_obj[c].cache = <<>>

\* C12: a store whose write to the file failed still returns the result of
\* the query to its caller, and the entry is in the in-memory cache.
C12_WriteFailureNotFatal ==
    \A c \in {"AIServiceMapper", "CostPredictor"} :
        (st_obj[c].last.outcome # "none" /\ ~st_obj[c].last.written) =>
            /\ st_obj[c].last.outcome = "returned"
            /\ HasKey(st_obj[c].cache, st_obj[c].last.key)

(***************************************************************************)
(* Claims about find_services                                              *)
(***************************************************************************)
\* the rows of a category with a base price, as find_services names the category
PricedRows(table, category) ==
    SelectWhere(table, [r \in Range(table) |->
        /\ r.category = (IF category = "Radiology" THEN "RADIOLOGY" ELSE "GENERAL")
        /\ r.base_price > 0])

\* C13: find_services(category, term) of service_mapper_final with an empty
\* term returns the (up to 10) cheapest records of the category that have a
\* base price, cheapest first, and so returns nothing only when the
\* category has no such record.
C13_EmptyTermCheapest ==
    (/\ call.op = "find_services"
     /\ Strip(call.term) = <<>>
     /\ call.category \in {"Radiology", "General"}) =>
        LET rows == PricedRows(services, call.category)
            n == IF Len(rows) < 10 THEN Len(rows) ELSE 10
        IN  /\ Len(result) = n
            /\ \A i \in 1..Len(result) :
                   \E j \in 1..Len(rows) : rows[j].code = result[i].code
            /\ \A i \in 1..Len(result), j \in 1..Len(result) :
                   i < j => result[i].base_price <= result[j].base_price
            /\ \A j \in 1..Len(rows) :
                   (\A i \in 1..Len(result) : result[i].code # rows[j].code) =>
                       \A i \in 1..Len(result) : result[i].base_price <= rows[j].base_price

S_x_ray == <<"x", " ", "r", "a", "y">>

S_ultra_sound == <<"u", "l", "t", "r", "a", " ", "s", "o", "u", "n", "d">>

S_ultrasound == <<"u", "l", "t", "r", "a", "s", "o", "u", "n", "d">>

S_cat_scan == <<"c", "a", "t", " ", "s", "c", "a", "n">>

\* the synonym pairs _normalize_text rewrites
SynonymPairs ==
    {{S_xray, S_xray_dash}, {S_x_ray, S_xray_dash}, {S_ultra_sound, S_ultrasound},
     {S_cat_scan, S_ct_scan}}

\* C14: when a service's description uses one member of a synonym pair,
\* find_services in the service's category with either member of the pair
\* as the term returns the service.
C14_SynonymsOverlap ==
    call.op \in {"find_services", "find_services2"} =>
        \A pair \in SynonymPairs :
            Strip(Lower(call.term)) \in pair =>
                LET rows == PricedRows(services, call.category)
                IN  \A j \in 1..Len(rows) :
                        (\E member \in pair : Contains(Lower(rows[j].description), member)) =>
                            \E i \in 1..Len(result) : result[i].code = rows[j].code

(***************************************************************************)
(* Claims about the results of search                                      *)
(***************************************************************************)
\* C15: the related-service lookup made for the services a search found
\* returns, and what it returns is at most 3 distinct services, each a
\* neighbour in the relationship graph of one of the services found.
C15_RelatedWithinLimit ==
    related.status # "none" =>
        /\ related.status = "returned"
        /\ Len(related.services) <= 3
        /\ \A i \in 1..Len(related.services), j \in 1..Len(related.services) :
               i # j => related.services[i].code # related.services[j].code
        /\ \A i \in 1..Len(related.services) :
               related.services[i].code \in related_codes(service_relationships, all_services)

\* C17: every service a search holds or returns has the code, description,
\* category and base price of its row in the services table; its category
\* is the stored one, not the category it was searched under.
C17_RecordsAsLoaded ==
    \A i \in 1..Len(all_services) :
        \E j \in 1..Len(MapperTable) :
            /\ MapperTable[j].code = all_services[i].code
            /\ MapperTable[j].description = all_services[i].description
            /\ MapperTable[j].category = all_services[i].category
            /\ MapperTable[j].base_price = all_services[i].base_price

(***************************************************************************)
(* rate_limiter.with_rate_limit_retry                                      *)
(***************************************************************************)
\* the largest max_attempts, and the attempts a wrapped function is scripted for
MaxAttempts == 3

\* what the wrapped function does when called: return, raise
\* openai.RateLimitError, or raise another exception
Behaviours == {"ok", "RateLimitError", "ValueError"}

RECURSIVE Scripts(_)
Scripts(n) ==
    IF n = 0 THEN {<<>>}
    ELSE {Append(s, b) : s \in Scripts(n - 1), b \in Behaviours}

\* wrapper, lines 37-45, for one call of func.  The handler of
\* RateLimitError formats retry_state.attempt_number, a name bound nowhere in
\* the function or the module, so the handler raises NameError before its
\* `raise`; the handler of other exceptions prints and re-raises
wrapper(behaviour, attempt) ==
    IF behaviour = "ok" THEN [raised |-> FALSE, value |-> attempt, error |-> "none"]
    ELSE IF behaviour = "RateLimitError"
         THEN [raised |-> TRUE, value |-> 0, error |-> "NameError"]
         ELSE [raised |-> TRUE, value |-> 0, error |-> behaviour]

\* the decision of @retry, lines 30-35, on what one call of wrapper did:
\* return its value; retry when the exception is a RateLimitError and
\* attempts remain; raise RetryError when none remains; raise any other
\* exception as it is
retry_decision(r, attempt, max_attempts) ==
    IF ~r.raised THEN "return"
    ELSE IF r.error # "RateLimitError" THEN "raise"
    ELSE IF attempt >= max_attempts THEN "raise RetryError"
    ELSE "retry"

RetryInit ==
    /\ r_pc = "idle"
    /\ r_attempt = 0
    /\ r_script = [max_attempts |-> 1, behaviours |-> <<>>]
    /\ r_result = [outcome |-> "none", value |-> 0, error |-> "none"]
    /\ cache_file = <<>>
    /\ disk_ok = TRUE
    /\ GraphIdle
    /\ SearchIdle
    /\ DbIdle
    /\ PredIdle
    /\ StoreIdle
    /\ BasketIdle
    /\ ReportIdle

\* a caller calls a function decorated with with_rate_limit_retry(n)
CallWrapped(n, script) ==
    /\ r_pc \in {"idle", "done"}
    /\ r_pc' = "calling"
    /\ r_attempt' = 0
    /\ r_script' = [max_attempts |-> n, behaviours |-> script]
    /\ r_result' = [outcome |-> "none", value |-> 0, error |-> "none"]
    /\ UNCHANGED <<coreVars, storeVars, reportVars, basketVars>>

\* one attempt: wrapper calls func, and @retry decides on the outcome
Attempt ==
    /\ r_pc = "calling"
    /\ r_attempt' = r_attempt + 1
    /\ LET r == wrapper(r_script.behaviours[r_attempt'], r_attempt')
           decision == retry_decision(r, r_attempt', r_script.max_attempts)
       IN  /\ r_pc' = IF decision = "retry" THEN "calling" ELSE "done"
           /\ r_result' =
                  IF decision = "return"
                  THEN [outcome |-> "returned", value |-> r.value, error |-> "none"]
                  ELSE IF decision = "raise"
                  THEN [outcome |-> "raised", value |-> 0, error |-> r.error]
                  ELSE IF decision = "raise RetryError"
                  THEN [outcome |-> "raised", value |-> 0, error |-> "RetryError"]
                  ELSE r_result
    /\ UNCHANGED <<r_script, coreVars, storeVars, reportVars, basketVars>>

RetryNext ==
    \/ \E n \in 1..MaxAttempts, script \in Scripts(MaxAttempts) : CallWrapped(n, script)
    \/ Attempt

SpecRetry == RetryInit /\ [][RetryNext]_vars

\* the first attempt, among the max_attempts allowed, at which the function
\* does not raise RateLimitError; max_attempts when there is none
DecidingAttempt(script, max_attempts) ==
    LET others == {k \in 1..max_attempts : script[k] # "RateLimitError"}
    IN  IF others = {} THEN max_attempts ELSE Min(others)

\* C16: a wrapped call ends at the first attempt that does not raise a
\* rate-limit error, or at attempt max_attempts when all of them do: it
\* returns that attempt's result when the attempt succeeds, and raises to
\* the caller when it fails, having made no further attempt.
C16_RetriesRateLimit ==
    r_pc = "done" =>
        LET k == DecidingAttempt(r_script.behaviours, r_script.max_attempts)
        IN  /\ r_attempt = k
            /\ IF r_script.behaviours[k] = "ok"
               THEN r_result.outcome = "returned" /\ r_result.value = k
               ELSE r_result.outcome = "raised"

(***************************************************************************)
(* _analyze_query with its own steps taken whenever they can be            *)
(***************************************************************************)
\* the steps _analyze_query takes by itself around the external call; the
\* answer of the collaborator (ExternalSucceeds, ExternalFails) is not one
\* of them, and the code has no step that gives the call up
AnalyzeStep ==
    \/ CacheHit
    \/ CacheMiss
    \/ LookupRaises
    \/ SavePrediction
    \/ SavePredictionFails

SpecFair == Init /\ [][Next]_vars /\ WF_vars(AnalyzeStep)

PrimaryCodes ==
    {s.code : s \in UNION {Range(MapperFound[t][c]) :
        t \in search_terms \cup Range(GeneralTerms), c \in {"RADIOLOGY", "GENERAL"}}}

AllTokensOccur(d, tokens) == \A i \in 1..Len(tokens) : Contains(d, tokens[i])

\* the tokens occur in d, from place `from` on, in the order they have in
\* the term: each at a place not before the place of the one before it
RECURSIVE OccurInOrder(_, _, _)
OccurInOrder(d, tokens, from) ==
    \/ tokens = <<>>
    \/ \E p \in from..(Len(d) - Len(Head(tokens)) + 1) :
           /\ SubSeq(d, p, p + Len(Head(tokens)) - 1) = Head(tokens)
           /\ OccurInOrder(d, Tail(tokens), p)

\* the points of the tokens: 20 for each one found at a word boundary, and
\* 10 for each one found only inside words
TokenPoints(d, tokens) ==
    20 * Cardinality({i \in 1..Len(tokens) : AtWordBoundary(d, tokens[i])})
    + 10 * Cardinality({i \in 1..Len(tokens) :
                           Contains(d, tokens[i]) /\ ~AtWordBoundary(d, tokens[i])})

\* C20: for a non-empty term and description, the score is 100 if the
\* normalized term occurs verbatim in the normalized description, plus 75
\* if all tokens occur in the description in the order of the term or 50 if
\* all occur but not in that order, plus 20 per token at a word boundary or
\* else 10 per token inside a word, plus 25 if the description has at most
\* (number of tokens + 2) words.
C20_ScoreComposition ==
    (call.op = "score_match" /\ call.description # <<>> /\ call.term # <<>>) =>
        LET d == normalize_text(call.description)
            t == normalize_text(call.term)
            tokens == Split(t)
        IN  result[1] =
                (IF Contains(d, t) THEN 100 ELSE 0)
                + (IF ~AllTokensOccur(d, tokens) THEN 0
                   ELSE IF OccurInOrder(d, tokens, 1) THEN 75 ELSE 50)
                + TokenPoints(d, tokens)
                + (IF Len(Split(d)) <= Len(tokens) + 2 THEN 25 ELSE 0)
(***************************************************************************)
(* find_services over tables that hold more candidates than the limit      *)
(***************************************************************************)
\* the number of rows of the largest table of the ranking specification
MaxRankRows == 11

C_G00 == <<"G", "0", "0">>

D_dressing == <<"D", "r", "e", "s", "s", "i", "n", "g">>

C_G01 == <<"G", "0", "1">>

D_consultation == <<"C", "o", "n", "s", "u", "l", "t", "a", "t", "i", "o", "n">>

C_G02 == <<"G", "0", "2">>

C_G03 == <<"G", "0", "3">>

D_consultation_child == <<"C", "o", "n", "s", "u", "l", "t", "a", "t", "i", "o", "n", " ", "C", "h", "i", "l", "d">>

C_G04 == <<"G", "0", "4">>

D_adult_consultation == <<"A", "d", "u", "l", "t", " ", "C", "o", "n", "s", "u", "l", "t", "a", "t", "i", "o", "n">>

C_G05 == <<"G", "0", "5">>

D_reconsultation == <<"R", "e", "c", "o", "n", "s", "u", "l", "t", "a", "t", "i", "o", "n">>

C_G06 == <<"G", "0", "6">>

D_specialist_consultation_fee_review == <<"S", "p", "e", "c", "i", "a", "l", "i", "s", "t", " ", "C", "o", "n", "s", "u", "l", "t", "a", "t", "i", "o", "n", " ", "F", "e", "e", " ", "R", "e", "v", "i", "e", "w">>

C_G07 == <<"G", "0", "7">>

C_G08 == <<"G", "0", "8">>

C_G09 == <<"G", "0", "9">>

D_adult_reconsultation == <<"A", "d", "u", "l", "t", " ", "R", "e", "c", "o", "n", "s", "u", "l", "t", "a", "t", "i", "o", "n">>

C_G10 == <<"G", "1", "0">>

C_G11 == <<"G", "1", "1">>

D_consultation_for_adult_out_patient == <<"C", "o", "n", "s", "u", "l", "t", "a", "t", "i", "o", "n", " ", "F", "o", "r", " ", "A", "d", "u", "l", "t", " ", "O", "u", "t", " ", "P", "a", "t", "i", "e", "n", "t">>

C_G12 == <<"G", "1", "2">>

Q_adult_consultation == <<"a", "d", "u", "l", "t", " ", "c", "o", "n", "s", "u", "l", "t", "a", "t", "i", "o", "n">>

Q_Consultation_Adult == <<"C", "o", "n", "s", "u", "l", "t", "a", "t", "i", "o", "n", " ", "A", "d", "u", "l", "t">>

\* the rows of the ranking tables, in rowid order
RankPool ==
    <<Row(C_G00, D_dressing, "GENERAL", 50, 0),
      Row(C_G01, D_consultation, "GENERAL", 300, 0),
      Row(C_G02, D_consultation_adult, "GENERAL", 150, 0),
      Row(C_G03, D_consultation_child, "GENERAL", 100, 0),
      Row(C_G04, D_adult_consultation, "GENERAL", 150, 0),
      Row(C_G05, D_reconsultation, "GENERAL", 80, 0),
      Row(C_G06, D_specialist_consultation_fee_review, "GENERAL", 900, 0),
      Row(C_G07, D_consultation, "GENERAL", 200, 400),
      Row(C_G08, D_consultation_adult, "GENERAL", 120, 0),
      Row(C_G09, D_adult_reconsultation, "GENERAL", 60, 0),
      Row(C_G10, D_consultation_child, "GENERAL", 100, 0),
      Row(C_G11, D_consultation_for_adult_out_patient, "GENERAL", 70, 0),
      Row(C_G12, D_consultation, "GENERAL", 250, 0)>>

\* every table of at most MaxRankRows consecutive rows of the pool
RankTables ==
    UNION {{SubSeq(RankPool, i, j) :
               j \in {k \in 0..Len(RankPool) : k - i + 1 <= MaxRankRows}} :
           i \in 1..Len(RankPool)}

RankCategories == {"General", "Radiology"}

RankQueries == {S_consultation, Q_adult_consultation, Q_Consultation_Adult}

RankInit ==
    /\ services \in RankTables
    /\ call = [op |-> "none"]
    /\ result = <<>>
    /\ cache_file = <<>>
    /\ disk_ok = TRUE
    /\ GraphIdle
    /\ SearchIdle
    /\ PredIdle
    /\ AuxIdle
    /\ ReportIdle

RankNext ==
    \/ \E c \in RankCategories, q \in RankQueries : FindServices(c, q)
    \/ \E c \in RankCategories, q \in RankQueries : FindServices2(c, q)

SpecRanking == RankInit /\ [][RankNext]_vars

\* the score _score_match gives the dictionary svc for the call made
RankScore(svc) ==
    IF call.op = "find_services"
    THEN score_match(svc.description, scored_term(call.term))
    ELSE score_match2(svc.description, svc.code, Strip(Lower(call.term)))

\* the candidates of the find_services call made: the dictionaries of the
\* rows fetched, each with its score, for those with a positive score
RankCandidates ==
    LET rows == IF call.op = "find_services"
                THEN find_services_rows(services, call.category, call.term)
                ELSE find_services2_rows(services, call.category, call.term)
        scored == Tuple([i \in 1..Len(rows) |->
                     [score |-> RankScore(ServiceDict(rows[i])),
                      svc |-> ServiceDict(rows[i])]])
    IN  SelectWhere(scored, [x \in Range(scored) |-> x.score > 0])

\* a has a better rank than b: a higher score, or the same score and a
\* lower base price
RankBetter(a, b) ==
    \/ a.score > b.score
    \/ a.score = b.score /\ a.svc.base_price < b.svc.base_price

\* the number of places of seq that hold x
CountOf(seq, x) == Cardinality({i \in 1..Len(seq) : seq[i] = x})

\* C21: for every category and non-empty term, find_services returns
\* candidates in the order of descending score and, among equal scores, of
\* ascending base price, returns at most 10 of them, and every candidate
\* left out has a (score, price) rank no better than the last one returned.
C21_RankedAndLimited ==
    (call.op \in {"find_services", "find_services2"} /\ call.term # <<>>) =>
        LET cands == RankCandidates
            n == Len(result)
            ranked == Tuple([i \in 1..n |->
                         [score |-> RankScore(result[i]), svc |-> result[i]]])
        IN  /\ n <= 10
            /\ \A i \in 1..n : ranked[i] \in Range(cands)
            /\ \A i \in 1..n : \A j \in (i + 1)..n : ~RankBetter(ranked[j], ranked[i])
            /\ \A c \in Range(cands) :
                   /\ CountOf(ranked, c) <= CountOf(cands, c)
                   /\ CountOf(ranked, c) < CountOf(cands, c) =>
                          n = 10 /\ ~RankBetter(c, ranked[n])

\* a call with more than 10 candidates, answered with 10 of them that hold
\* two scores and, within one score, two prices
C21_LimitApplied ==
    /\ call.op = "find_services"
    /\ call.term # <<>>
    /\ Len(RankCandidates) > 10
    /\ Len(result) = 10
    /\ \E i \in 1..9 : result[i].base_price < result[i + 1].base_price
    /\ \E i \in 1..9 : result[i].base_price > result[i + 1].base_price
(***************************************************************************)
(* Claims about the category of the records found                          *)
(***************************************************************************)
\* the category of the services table that a category name asks for,
\* whatever its case
CategoryAsked(category) ==
    CASE category \in {"Radiology", "RADIOLOGY"} -> "RADIOLOGY"
      [] category \in {"General", "GENERAL"} -> "GENERAL"
      [] OTHER -> category

\* C22: for every requested category and every term, terms that contain
\* 'x-ray' or 'xray' included, every record returned by find_services
\* belongs to the requested category.
C22_CategoryRestricted ==
    call.op \in {"find_services", "find_services2"} =>
        \A i \in 1..Len(result) : result[i].category = CategoryAsked(call.category)
(***************************************************************************)
(* ai_service_mapper.AIServiceMapper.search and                            *)
(* ai_service_mapper_v2.AIServiceMapper.search: the services collected     *)
(***************************************************************************)
\* the number of rows of the largest table of the aggregation specification
MaxAggRows == 3

Q_adult == <<"a", "d", "u", "l", "t">>

\* the rows of the aggregation tables, in rowid order: the services table
\* has no uniqueness constraint on code (database_prep.py:38-51), and two
\* hospitals may price one code differently
AggPool ==
    <<Row(C_AC001, D_consultation_adult, "GENERAL", 150, 0),
      Row(C_AC001, D_consultation_adult, "GENERAL", 180, 0),
      Row(C_XR1020, D_chest_xray, "RADIOLOGY", 500, 0),
      Row(C_GE002, D_medical_examination, "GENERAL", 100, 200),
      Row(C_XR1020, D_chest_xray, "RADIOLOGY", 650, 0)>>

AggTables ==
    {SubseqAt(AggPool, I) :
        I \in {J \in SUBSET (1..Len(AggPool)) : Cardinality(J) <= MaxAggRows}}

\* the analyses _analyze_query returns
AggAnalyses ==
    {[category |-> c, search_terms |-> t, context |-> "context"] :
        c \in {"Radiology", "General"},
        t \in {<<S_consultation, Q_adult>>, <<S_chest_xray_dash, S_xray_dash>>,
                <<S_examination>>, <<S_chest, S_consultation>>}}

\* ai_service_mapper.py:111-114: `if service not in all_services`
RECURSIVE AddNewRecords(_, _)
AddNewRecords(all, found) ==
    IF found = <<>> THEN all
    ELSE AddNewRecords(IF Head(found) \in Range(all) THEN all ELSE Append(all, Head(found)),
                       Tail(found))

\* ai_service_mapper_v2.py:115-118: `if service["code"] not in seen_codes`
RECURSIVE AddNewCodes(_, _)
AddNewCodes(all, found) ==
    IF found = <<>> THEN all
    ELSE AddNewCodes(IF \E i \in 1..Len(all) : all[i].code = Head(found).code
                     THEN all ELSE Append(all, Head(found)),
                     Tail(found))

\* the lists find_services returns, in the order search asks for them
producers_v1(table, a) ==
    Tuple([i \in 1..Len(a.search_terms) |->
             find_services2(table, a.category, a.search_terms[i])])

producers_v2(table, a) ==
    Tuple([i \in 1..Len(a.search_terms) |->
             find_services2(table, "Radiology", a.search_terms[i])])
    \o <<find_services2(table, "General", S_consultation),
          find_services2(table, "General", S_examination)>>

RECURSIVE search_v1_loop(_, _)
search_v1_loop(all, lists) ==
    IF lists = <<>> THEN all
    ELSE search_v1_loop(AddNewRecords(all, Head(lists)), Tail(lists))

RECURSIVE search_v2_loop(_, _)
search_v2_loop(all, lists) ==
    IF lists = <<>> THEN all
    ELSE search_v2_loop(AddNewCodes(all, Head(lists)), Tail(lists))

\* all_services of ai_service_mapper.AIServiceMapper.search
search_v1(table, a) == search_v1_loop(<<>>, producers_v1(table, a))

\* all_services of ai_service_mapper_v2.AIServiceMapper.search
search_v2(table, a) == search_v2_loop(<<>>, producers_v2(table, a))

AggInit ==
    /\ services \in AggTables
    /\ call = [op |-> "none"]
    /\ result = <<>>
    /\ cache_file = <<>>
    /\ disk_ok = TRUE
    /\ GraphIdle
    /\ SearchIdle
    /\ PredIdle
    /\ AuxIdle
    /\ ReportIdle

SearchV1(a) ==
    /\ call.op = "none"
    /\ call' = [op |-> "search_v1", analysis |-> a]
    /\ result' = search_v1(services, a)
    /\ UNCHANGED <<auxVars, reportVars, services, cache_file, disk_ok, graphVars, searchVars, predVars>>

SearchV2(a) ==
    /\ call.op = "none"
    /\ call' = [op |-> "search_v2", analysis |-> a]
    /\ result' = search_v2(services, a)
    /\ UNCHANGED <<auxVars, reportVars, services, cache_file, disk_ok, graphVars, searchVars, predVars>>

AggNext ==
    \/ \E x \in AggAnalyses : SearchV1(x)
    \/ \E x \in AggAnalyses : SearchV2(x)

SpecAggregate == AggInit /\ [][AggNext]_vars

RECURSIVE Flatten(_)
Flatten(lists) == IF lists = <<>> THEN <<>> ELSE Head(lists) \o Flatten(Tail(lists))

\* the records produced for the search made, in search order
Produced ==
    Flatten(IF call.op = "search_v1" THEN producers_v1(services, call.analysis)
            ELSE producers_v2(services, call.analysis))

\* C23: the aggregated result list of a search holds each service code at
\* most once, and when several (term, category) searches produce one code,
\* the record kept is the one of the first producer in search order.
C23_DedupByCode ==
    call.op \in {"search_v1", "search_v2"} =>
        LET flat == Produced
        IN  /\ \A i, j \in 1..Len(result) : result[i].code = result[j].code => i = j
            /\ \A i \in 1..Len(result) :
                   \E k \in 1..Len(flat) :
                       /\ flat[k] = result[i]
                       /\ \A j \in 1..(k - 1) : flat[j].code # result[i].code
            /\ \A k \in 1..Len(flat) : \E i \in 1..Len(result) : result[i].code = flat[k].code
(***************************************************************************)
(* Claims about the order of the aggregated results                        *)
(***************************************************************************)
\* the category the services table gives the record with this code
CatalogCategory(code) ==
    (CHOOSE r \in Range(MapperTable) : r.code = code).category

\* the rank of a record in the aggregated results: its category is the
\* preferred one, then its description contains a search term, then its
\* base price
AggregationRank(x) ==
    <<IF CatalogCategory(x.code) = CategoryAsked(analysis.category) THEN -1 ELSE 0,
      IF \E t \in search_terms : Contains(Lower(x.description), Lower(t)) THEN -1 ELSE 0,
      x.base_price>>

\* C24: in the aggregated results, all records whose category is the
\* preferred category of the query (the category of the analysis) come
\* before all other records; within each of those groups, records whose
\* description contains a search term come first; remaining ties are in
\* the order of ascending base price.
C24_AggregationOrder ==
    pc \in {"recommend", "return"} =>
        \A i \in 1..Len(all_services) : \A j \in (i + 1)..Len(all_services) :
            ~KeyLess(AggregationRank(all_services[j]), AggregationRank(all_services[i]))
(***************************************************************************)
(* Claims about what the query cache stores                                *)
(***************************************************************************)
\* the external analysis of the current query failed: the analysis in use
\* is the fallback of lines 120-128, got at the external call
FailedQuery ==
    /\ "ExternalAnalysis" \in Range(trace)
    /\ analysis = FallbackAnalysis

\* C25: when the external analysis fails for a query, the cache, in memory
\* and on disk, is left exactly as it was before the query; a fallback
\* result is never stored, and so never served from the cache to a later
\* exact or similar query.
C25_FailureLeavesCache ==
    /\ FailedQuery => <<prediction_cache, cache_file>> = cache_before
    /\ \A i \in 1..Len(prediction_cache) : prediction_cache[i].val # FallbackAnalysis
    /\ \A i \in 1..Len(cache_file) : cache_file[i].val # FallbackAnalysis
    /\ ("CacheHit" \in Range(trace)) => analysis # FallbackAnalysis

\* a query whose external analysis failed has returned, after an earlier
\* query stored its analysis, and the cache holds that entry alone
C25_FailedAfterStored ==
    /\ FailedQuery
    /\ pc = "return"
    /\ calls = 2
    /\ Len(prediction_cache) = 1
    /\ prediction_cache[1].key # query
(***************************************************************************)
(* notes/basket_manager.py: the baskets of the users, in the local cache   *)
(* and on the pantry server.  A basket is a Python dict, held by           *)
(* reference: basket_objects gives, for each dict object, its "illnesses"  *)
(* (a dict from illness to the list of its appointments), and basket_cache *)
(* gives the object cached for a username.  The object "DEFAULT" is the    *)
(* module-level DEFAULT_BASKET_DATA; the object named after a user is the  *)
(* dict response.json() built for that user.  Each call is one step, with  *)
(* the status of each request it makes chosen by the server.               *)
(***************************************************************************)
\* the number of calls made
MaxBasketOps == 3

\* the baskets the pantry can hold at the start
Pantries ==
    {[u \in Usernames |-> NoBasket],
     [u \in Usernames |->
         IF u = "alice" THEN BasketOf(<<[key |-> "flu", val |-> <<"mon">>]>>) ELSE NoBasket]}

\* del d[k]
DictDel(d, k) == SelectWhere(d, [e \in Range(d) |-> e.key # k])

\* fetch_basket_async(basket_name): the object returned ("none" for the {}
\* of line 30), with the objects and the cache as the call leaves them
fetch_basket(name) ==
    IF basket_cache[name] # "none"
    THEN [obj |-> basket_cache[name], objects |-> basket_objects, cache |-> basket_cache]
    ELSE IF pantry[name].exists
         THEN [obj |-> name,
               objects |-> [basket_objects EXCEPT ![name] = pantry[name].illnesses],
               cache |-> [basket_cache EXCEPT ![name] = name]]
         ELSE [obj |-> "none", objects |-> basket_objects, cache |-> basket_cache]

\* lines 56-60: the note {illness: appointments} is added to the illnesses
add_note(illnesses, illness, appointments) ==
    IF ~HasKey(illnesses, illness)
    THEN DictSet(illnesses, illness, appointments)
    ELSE DictSet(illnesses, illness, DictGet(illnesses, illness) \o appointments)

\* what load_user_basket(username) returns in the current state: the
\* illnesses of the basket, or "none" for {}
load_view(username) ==
    LET f == fetch_basket(username)
    IN  IF f.obj = "none" THEN [exists |-> FALSE, illnesses |-> <<>>]
        ELSE [exists |-> TRUE, illnesses |-> f.objects[f.obj]]

BasketInit ==
    /\ basket_objects = [o \in BasketObjects |-> <<>>]
    /\ basket_cache = [u \in Usernames |-> "none"]
    /\ pantry \in Pantries
    /\ given = [u \in Usernames |-> {pantry[u].illnesses[i].key : i \in 1..Len(pantry[u].illnesses)}]
    /\ posted = [u \in Usernames |-> <<>>]
    /\ last_call = [op |-> "none"]
    /\ basket_ops = 0
    /\ cache_file = <<>>
    /\ disk_ok = TRUE
    /\ GraphIdle
    /\ SearchIdle
    /\ DbIdle
    /\ PredIdle
    /\ StoreIdle
    /\ RetryIdle
    /\ ReportIdle

\* the record of a call: its arguments, how it ended, and what
\* load_user_basket would have returned before it
CallRecord(op, username, how) ==
    [op |-> op, username |-> username, outcome |-> how, before |-> load_view(username)]

\* add_to_basket_async(username, {illness: appointments}); post_ok and
\* put_ok tell whether the pantry answers 200 to the POST and to the PUT
AddToBasket(username, illness, appointments, post_ok, put_ok) ==
    /\ basket_ops < MaxBasketOps
    /\ basket_ops' = basket_ops + 1
    /\ given' = [given EXCEPT ![username] = @ \cup {illness}]
    /\ LET f == fetch_basket(username)
           create == f.obj = "none"
       IN  IF create /\ ~post_ok
           THEN \* create_new_basket raises at line 46
                /\ last_call' = CallRecord("add", username, "create failed")
                /\ UNCHANGED <<basket_objects, basket_cache, pantry, posted>>
           ELSE LET obj == IF create THEN DefaultObject ELSE f.obj
                    cache1 == IF create THEN [f.cache EXCEPT ![username] = DefaultObject]
                              ELSE f.cache
                    pantry1 == IF create
                               THEN [pantry EXCEPT ![username] = BasketOf(f.objects[DefaultObject])]
                               ELSE pantry
                    objects1 == [f.objects EXCEPT ![obj] = add_note(@, illness, appointments)]
                IN  /\ posted' = IF create
                                 THEN [posted EXCEPT ![username] = <<f.objects[DefaultObject]>>]
                                 ELSE posted
                    /\ basket_objects' = objects1
                    /\ IF put_ok
                       THEN /\ pantry' = [pantry1 EXCEPT ![username] = BasketOf(objects1[obj])]
                            /\ basket_cache' = [cache1 EXCEPT ![username] = obj]
                            /\ last_call' = CallRecord("add", username, "returned")
                       ELSE /\ pantry' = pantry1
                            /\ basket_cache' = cache1
                            /\ last_call' = CallRecord("add", username, "rejected")
    /\ UNCHANGED <<coreVars, storeVars, retryVars, reportVars>>

\* load_user_basket(username)
LoadUserBasket(username) ==
    /\ basket_ops < MaxBasketOps
    /\ basket_ops' = basket_ops + 1
    /\ LET f == fetch_basket(username)
       IN  /\ basket_objects' = f.objects
           /\ basket_cache' = f.cache
    /\ last_call' = CallRecord("load", username, "returned")
    /\ UNCHANGED <<pantry, given, posted, coreVars, storeVars, retryVars, reportVars>>

\* the common part of edit_illness_async and delete_illness_async: the
\* basket is fetched, `changed` is applied to its illnesses when `illness`
\* is among them, and the basket is PUT
UpdateIllness(op, username, illness, changed, put_ok) ==
    LET f == fetch_basket(username)
    IN  IF f.obj = "none"
        THEN \* {}["illnesses"] raises KeyError
             /\ last_call' = CallRecord(op, username, "KeyError")
             /\ UNCHANGED <<basket_objects, basket_cache, pantry>>
        ELSE IF ~HasKey(f.objects[f.obj], illness)
        THEN /\ last_call' = CallRecord(op, username, "not found")
             /\ basket_objects' = f.objects
             /\ basket_cache' = f.cache
             /\ UNCHANGED pantry
        ELSE LET objects1 == [f.objects EXCEPT ![f.obj] = changed]
             IN  /\ basket_objects' = objects1
                 /\ basket_cache' = f.cache
                 /\ IF put_ok
                    THEN /\ pantry' = [pantry EXCEPT ![username] = BasketOf(objects1[f.obj])]
                         /\ last_call' = CallRecord(op, username, "returned")
                    ELSE /\ UNCHANGED pantry
                         /\ last_call' = CallRecord(op, username, "rejected")

\* edit_illness_async(username, old_illness, new_illness, new_appointments)
EditIllness(username, old_illness, new_illness, new_appointments, put_ok) ==
    /\ basket_ops < MaxBasketOps
    /\ basket_ops' = basket_ops + 1
    /\ given' = [given EXCEPT ![username] = @ \cup {new_illness}]
    /\ LET f == fetch_basket(username)
           now == IF f.obj = "none" THEN <<>> ELSE f.objects[f.obj]
       IN  UpdateIllness("edit", username, old_illness,
                         DictSet(DictDel(now, old_illness), new_illness, new_appointments),
                         put_ok)
    /\ UNCHANGED <<posted, coreVars, storeVars, retryVars, reportVars>>

\* delete_illness_async(username, illness_to_delete)
DeleteIllness(username, illness_to_delete, put_ok) ==
    /\ basket_ops < MaxBasketOps
    /\ basket_ops' = basket_ops + 1
    /\ LET f == fetch_basket(username)
           now == IF f.obj = "none" THEN <<>> ELSE f.objects[f.obj]
       IN  UpdateIllness("delete", username, illness_to_delete,
                         DictDel(now, illness_to_delete), put_ok)
    /\ UNCHANGED <<given, posted, coreVars, storeVars, retryVars, reportVars>>

BasketNext ==
    \/ \E u \in Usernames, i \in Illnesses, post_ok \in BOOLEAN, put_ok \in BOOLEAN :
           AddToBasket(u, i, <<"mon">>, post_ok, put_ok)
    \/ \E u \in Usernames : LoadUserBasket(u)
    \/ \E u \in Usernames, old \in Illnesses, new \in Illnesses, put_ok \in BOOLEAN :
           EditIllness(u, old, new, <<"tue">>, put_ok)
    \/ \E u \in Usernames, i \in Illnesses, put_ok \in BOOLEAN : DeleteIllness(u, i, put_ok)

SpecBasket == BasketInit /\ [][BasketNext]_vars

\* the illnesses of a dict
IllnessesOf(d) == {d[i].key : i \in 1..Len(d)}

\* C26: after any sequence of add_to_basket_async, edit_illness_async and
\* delete_illness_async calls for distinct usernames, the basket held for a
\* user, in the local cache and as sent to the server, contains only
\* illnesses added for that user, and a basket newly created for a user
\* starts with no illnesses, whatever other users did earlier.
C26_BasketIsolation ==
    \A u \in Usernames :
        /\ basket_cache[u] # "none" => IllnessesOf(basket_objects[basket_cache[u]]) \subseteq given[u]
        /\ IllnessesOf(pantry[u].illnesses) \subseteq given[u]
        /\ posted[u] # <<>> => posted[u][1] = <<>>

\* C27: if the server rejects the update (a response other than 200) in
\* add_to_basket_async, edit_illness_async or delete_illness_async, the call
\* raises and the locally cached basket of that user is unchanged: a
\* following load_user_basket returns the contents from before the call.
C27_RejectedUpdateLeavesBasket ==
    (last_call.op \in {"add", "edit", "delete"} /\ last_call.outcome = "rejected") =>
        load_view(last_call.username) = last_call.before
(***************************************************************************)
(* Claims about the shape of the relationship graph                        *)
(***************************************************************************)
\* the codes that occur in the cached groups
CachedCodes ==
    UNION {GroupCodes(analysis_cache[g]) : g \in 1..Len(analysis_cache)}

\* a and b occur together in one of the groups replayed so far
ShareGroup(a, b) ==
    \E g \in 1..group_index : {a, b} \subseteq GroupCodes(analysis_cache[g])

\* C28: in the graph built from the analysis cache, relatedness is
\* symmetric and irreflexive: b is in related(a) if and only if a is in
\* related(b), no code is related to itself, and two codes are related
\* exactly when they occur, as service code or related code, in the same
\* cached analysis group.
C28_GraphShape ==
    LET codes == CachedCodes \cup DOMAIN service_relationships
    IN  \A a \in codes :
            /\ a \notin Related(service_relationships, a)
            /\ \A b \in codes :
                   /\ b \in Related(service_relationships, a)
                          <=> a \in Related(service_relationships, b)
                   /\ b \in Related(service_relationships, a)
                          <=> (a # b /\ ShareGroup(a, b))

\* the graph of a cache of two groups is built: one code occurs in both
\* groups, two codes are related, and two cached codes are not
C28_GraphBuilt ==
    /\ Len(analysis_cache) = 2
    /\ group_index = 2
    /\ GroupCodes(analysis_cache[1]) \cap GroupCodes(analysis_cache[2]) # {}
    /\ GroupCodes(analysis_cache[1]) # GroupCodes(analysis_cache[2])
    /\ \E a, b \in CachedCodes : a # b /\ b \in Related(service_relationships, a)
    /\ \E a, b \in CachedCodes : a # b /\ b \notin Related(service_relationships, a)
(***************************************************************************)
(* Claims about the tier of a matched record                               *)
(***************************************************************************)
\* s ends with t
EndsWith(s, t) == Len(t) <= Len(s) /\ SubSeq(s, Len(s) - Len(t) + 1, Len(s)) = t

\* the tier suffixes and their tiers
SuffixTiers ==
    <<[suffix |-> S_dash_K, tier |-> "K"],
      [suffix |-> S_dash_Nk, tier |-> "Nk"],
      [suffix |-> S_dash_P, tier |-> "P"]>>

\* C29: for every matched record whose description ends with a tier
\* suffix, the tier assigned by find_matching_services is the tier of that
\* suffix (-K gives K, -Nk gives Nk, -P gives P), whatever else the
\* description contains, and its base_description is the description with
\* that suffix removed.
C29_TierOfSuffix ==
    call.op = "find_matching_services" =>
        \A i \in 1..Len(result) : \A k \in 1..Len(SuffixTiers) :
            EndsWith(result[i].description, SuffixTiers[k].suffix) =>
                /\ result[i].tier = SuffixTiers[k].tier
                /\ result[i].base_description =
                       SubSeq(result[i].description, 1,
                              Len(result[i].description) - Len(SuffixTiers[k].suffix))
(***************************************************************************)
(* Claims about _normalize_text                                            *)
(***************************************************************************)
\* C30: _normalize_text is a pure function, and for every text t,
\* normalize(normalize(t)) = normalize(t): a normalized string is a fixed
\* point, which can be used as a key.
C30_NormalizeIdempotent ==
    call.op = "normalize_text" =>
        /\ result = <<normalize_text(call.text)>>
        /\ normalize_text(result[1]) = result[1]

=============================================================================
